---- MODULE Spec2Model ----
(***************************************************************************)
(* A model of the MPI brute-force key search programs:                     *)
(*   src/src/mpi_bruteforce_v3.cpp  (dispatcher, work requests, pipeline)  *)
(*   src/src/mpi_bruteforce_v2.cpp  (static slices, OpenMP chunks)         *)
(*   src/src/mpi_bruteforce.cpp     (v1: static slices, one key at a time) *)
(* The key space, the number of ranges per process and the number of       *)
(* processes are scaled down; every scaled quantity is a named bound.      *)
(*                                                                         *)
(* Specifications:                                                         *)
(*   Spec      main() of v3: distribution, search loop, report             *)
(*   SpecMain  Spec, and searchRange may return 0 for a range without a    *)
(*             match, which lets the request/reply exchange take place     *)
(*   SpecPart  generateIntelligentKeySpaces as a function of its inputs    *)
(*   SpecV2    main() of v2: chunked search, found-key exchange, report    *)
(*   SpecV1    main() of v1: key loop, MPI_Irecv/MPI_Test, report          *)
(*   SpecCodec longToKey as a function of the KeyId                        *)
(*   SpecTry   the evaluation of the keys of one loop: longToKey, decrypt, *)
(*             phrase check, in v1 (tryKey) and v3                         *)
(*   SpecDeliver  one process receiving found-key announcements (v2, v3)   *)
(*   SpecStatic   v1 or v2 with its static slices                          *)
(*   SpecLocal the search inside one process: one OpenMP parallel region   *)
(*             of v2, or one call of searchRange of v3                     *)
(*   SpecPipe  one call of searchRange of v3: its three stage threads      *)
(***************************************************************************)
EXTENDS Integers, Sequences, FiniteSets, TLC

(***************************************************************************)
(* Bounds.                                                                 *)
(***************************************************************************)
\* numProcesses ranges over 1..MaxProcs
MaxProcs == 3
\* the key-space bound is 2^KeyBits (2^56 in the source)
KeyBits == 3
\* ranges generated per process (the literal 10 of v3.cpp:425,432)
SpacesPerProcess == 2
\* the random priorities are drawn from 0..MaxPriority
MaxPriority == 1
\* at most this many KeyIds satisfy the predicate
MaxMatches == 2
\* generateIntelligentKeySpaces on its own: end <= MaxEnd, numSpaces <= MaxSpaces
MaxEnd == 5
MaxSpaces == 3
\* SpecMain: at most this many KeyIds satisfy the predicate
MaxMatchesMain == 1
\* v2: keys per chunk (chunkSize, 1000000 in the source)
ChunkSize == 2
\* bits per byte of a key blob (8 in the source: the mask 0xFF)
ByteBits == 1
\* v1: at most this many KeyIds satisfy the predicate
MaxMatchesV1 == 3
\* the capacity C23 is checked against; PipelineData's std::queue has none
QueueCapacity == 2
\* v2: OpenMP threads of a parallel region (omp_set_num_threads(4))
NumThreads == 2
\* the KeyIds DES_set_key_checked refuses, among those of one loop
MaxRejected == 2
\* copies of one found-key announcement delivered to one process
MaxDeliveries == 3
\* searchRange on its own: start and end of the range are in 0..PipeMaxEnd
PipeMaxEnd == 4

\* bytes of a key blob (longToKey: i < 8)
KeyBytes == 8

(***************************************************************************)
(* MPI message tags of v3 (the literal tag arguments of MPI_Send/Recv).    *)
(***************************************************************************)
TagCount == 0
TagSpace == 1
TagFound == 2
TagRequest == 3
TagReply == 4

RECURSIVE Pow2(_)
Pow2(n) == IF n = 0 THEN 1 ELSE 2 * Pow2(n - 1)

\* every candidate KeyId: 0 .. 2^KeyBits - 1
KeyIds == 0 .. (Pow2(KeyBits) - 1)

\* C++ integer division truncates toward zero
CDiv(a, b) ==
    IF a >= 0 THEN a \div b ELSE -((-a) \div b)

Min(S) == CHOOSE x \in S : \A y \in S : x <= y

RECURSIVE SeqPerms(_)
SeqPerms(S) ==
    IF S = {} THEN {<<>>}
    ELSE UNION {{<<x>> \o s : s \in SeqPerms(S \ {x})} : x \in S}

(***************************************************************************)
(* class KeySpace and generateIntelligentKeySpaces.                        *)
(***************************************************************************)
KeySpace(s, e, p) == [start |-> s, end |-> e, priority |-> p]

\* KeySpace::operator<
KeySpaceLess(a, b) == a.priority < b.priority

\* the keys of a half-open range
KeysOf(sp) == sp.start .. (sp.end - 1)

SpaceEndDropRemainder(start, end, numSpaces, i) ==
    (start + i * CDiv(end - start, numSpaces)) + CDiv(end - start, numSpaces)

\* spaceEnd of the i-th range, i in 0..numSpaces-1
SpaceEnd(start, end, numSpaces, i) ==
    IF i = numSpaces - 1 THEN end
    ELSE (start + i * CDiv(end - start, numSpaces)) + CDiv(end - start, numSpaces)

\* the vector before the sort, for one draw prio of the random priorities
UnsortedSpaces(start, end, numSpaces, prio) ==
    [j \in 1..numSpaces |->
        KeySpace(start + (j - 1) * CDiv(end - start, numSpaces),
                 SpaceEnd(start, end, numSpaces, j - 1),
                 prio[j])]

\* std::sort with operator< on the elements of v at the positions S: any
\* ordering in which no element is less than one before it (the sort is not
\* stable, the order of equal priorities is unspecified)
RECURSIVE SortedOrders(_, _)
SortedOrders(v, S) ==
    IF S = {} THEN {<<>>}
    ELSE UNION {{<<v[x]>> \o rest : rest \in SortedOrders(v, S \ {x})} :
                   x \in {y \in S : \A z \in S : ~KeySpaceLess(v[z], v[y])}}

SortOutcomes(v) == SortedOrders(v, 1..Len(v))

\* every vector the function can return when draws is the set of possible
\* sequences of the random priorities (line 212)
generateIntelligentKeySpaces(start, end, numSpaces, draws) ==
    UNION {SortOutcomes(UnsortedSpaces(start, end, numSpaces, prio)) :
              prio \in draws}

\* draws with ties: each priority in 0..MaxPriority
TiedDraws(n) == [1..n -> 0..MaxPriority]

\* draws without ties (two random doubles are equal with probability
\* about 2^-53): the priorities are a permutation of 0..n-1
DistinctDraws(n) == SeqPerms(0..(n - 1))

(***************************************************************************)
(* State.                                                                  *)
(***************************************************************************)
VARIABLES
    \* v3: main()
    numProcesses,     \* MPI_Comm_size
    Match,            \* the KeyIds whose decryption contains the search phrase
    keySpaces,        \* rank 0's vector of undistributed ranges
    localKeySpaces,   \* per rank
    space,            \* per rank: the range handed to searchRange
    foundKey,         \* per rank
    keyFound,         \* per rank
    pc,               \* per rank: position in main()
    mailbox,          \* per destination rank: messages sent and not received
    output,           \* per rank: the results printed
    scanned,          \* history: ranges for which searchRange returned 0
    sent,             \* history: <<source, destination, tag>> of every send
    \* generateIntelligentKeySpaces called on arbitrary arguments
    gStart, gEnd, gNumSpaces, gSpaces, gReturned,
    gError,           \* how the call ended when it did not return normally
    \* v2: main()
    numProcesses2,    \* MPI_Comm_size
    Match2,           \* the KeyIds whose decryption contains the search phrase
    currentKey,       \* per rank
    chunkEnd,         \* per rank
    foundKey2,        \* per rank: foundKey
    keyFound2,        \* per rank: keyFound
    globalFoundKey,   \* per rank
    globalKeyFound,   \* per rank
    pc2,              \* per rank: position in main()
    mailbox2,         \* per destination and source: keys sent, not received
    output2,          \* per rank: the results printed
    \* longToKey applied to two KeyIds
    cKeyA,            \* a KeyId
    cKeyB,            \* a KeyId
    blobA,            \* keyArray of cKeyA
    blobB,            \* keyArray of cKeyB
    cEncoded,         \* longToKey has run
    \* v3: one call of searchRange, thread by thread
    pSpace,           \* the argument space
    pMatch,           \* the KeyIds for which the strstr of line 288 succeeds
    generatedKeys,    \* PipelineData
    encryptedData,    \* PipelineData; an item is represented by its key
    pKeyFound,        \* PipelineData::keyFound
    pFoundKey,        \* PipelineData::foundKey
    mtx,              \* PipelineData::mtx: the thread holding it, or "free"
    tpc,              \* per stage thread: its position
    gKey,             \* pipelineGenerate: key
    eKey,             \* pipelineEncrypt: key
    vItem,            \* pipelineCompare: item.first
    pcS,              \* searchRange: "joining" or "returned"
    pResult,          \* the value searchRange returned
    pushedAfter,      \* history: keys pushed while keyFound was true
    decryptsAfter,    \* history: decrypts started while keyFound was true
    evalsAfter,       \* history: items compared while keyFound was true
    genHist,          \* history: the keys pipelineGenerate pushed, in order
    cmpHist,          \* history: the keys pipelineCompare compared, in order
    \* v1: main() of mpi_bruteforce.cpp
    numProcesses1,    \* MPI_Comm_size
    Match1,           \* the KeyIds for which tryKey returns true
    key1,             \* per rank: key, the loop variable
    foundKey1,        \* per rank: foundKey, also the buffer of the MPI_Irecv
    request1,         \* per rank: the MPI_Irecv: "pending", "complete", "null"
    pc1,              \* per rank: position in main()
    mailbox1,         \* per destination: <<source, key>> sent, not received
    output1,          \* per rank: the results printed
    found1,           \* history: <<rank, key>> of every key announced
    \* v2: one OpenMP parallel region (one chunk), thread by thread
    oStart,           \* currentKey
    oEnd,             \* chunkEnd
    oMatch,           \* the KeyIds for which the strstr of line 290 succeeds
    oNext,            \* the next iteration the dynamic schedule hands out
    oKey,             \* per thread: key
    opc,              \* per thread: its position
    oKeyFound,        \* keyFound
    oFoundKey,        \* foundKey
    oLate,            \* history: matches that found keyFound already set
    \* tryKey and its callers: the keys one process evaluates, one by one
    tVer,             \* which program: "v1" or "v3"
    tLow,             \* the first key of the loop
    tHigh,            \* one past its last key
    tMatch,           \* the KeyIds whose plaintext holds the search phrase
    tRejected,        \* the KeyIds DES_set_key_checked refuses
    tKey,             \* key
    tTemp,            \* what the output buffer of decrypt holds
    tStep,            \* position in the evaluation of tKey
    tAccepted,        \* history: keys for which the phrase check succeeded
    tSkipped,         \* history: rejected keys the loop went past
    \* one process and the found-key announcements delivered to it
    dVer,             \* which program: "v2" or "v3"
    dKey,             \* the key the announcement carries
    dProc,            \* foundKey, keyFound, globalFoundKey, globalKeyFound
                      \* and the position of the process
    dBefore,          \* history: dProc before the first delivery
    dOnce,            \* history: dProc after the first delivery
    dCount            \* history: deliveries so far

v3vars == <<numProcesses, Match, keySpaces, localKeySpaces, space, foundKey,
            keyFound, pc, mailbox, output, scanned, sent>>
partvars == <<gStart, gEnd, gNumSpaces, gSpaces, gReturned, gError>>
v2vars == <<numProcesses2, Match2, currentKey, chunkEnd, foundKey2, keyFound2,
            globalFoundKey, globalKeyFound, pc2, mailbox2, output2>>
codecvars == <<cKeyA, cKeyB, blobA, blobB, cEncoded>>
pipevars == <<pSpace, pMatch, generatedKeys, encryptedData, pKeyFound,
              pFoundKey, mtx, tpc, gKey, eKey, vItem, pcS, pResult,
              pushedAfter, decryptsAfter, evalsAfter, genHist, cmpHist>>
v1vars == <<numProcesses1, Match1, key1, foundKey1, request1, pc1, mailbox1,
            output1, found1>>
ompvars == <<oStart, oEnd, oMatch, oNext, oKey, opc, oKeyFound, oFoundKey,
             oLate>>
tryvars == <<tVer, tLow, tHigh, tMatch, tRejected, tKey, tTemp, tStep,
             tAccepted, tSkipped>>
dlvvars == <<dVer, dKey, dProc, dBefore, dOnce, dCount>>
vars == <<v3vars, partvars, v2vars, codecvars, pipevars, v1vars, ompvars,
          tryvars, dlvvars>>

\* what the actions of one program leave alone: the other programs
notV3 == <<partvars, v2vars, codecvars, pipevars, v1vars, ompvars, tryvars, dlvvars>>
notPart == <<v3vars, v2vars, codecvars, pipevars, v1vars, ompvars, tryvars, dlvvars>>
notV2 == <<v3vars, partvars, codecvars, pipevars, v1vars, ompvars, tryvars, dlvvars>>
notCodec == <<v3vars, partvars, v2vars, pipevars, v1vars, ompvars, tryvars, dlvvars>>
notPipe == <<v3vars, partvars, v2vars, codecvars, v1vars, ompvars, tryvars, dlvvars>>
notV1 == <<v3vars, partvars, v2vars, codecvars, pipevars, ompvars, tryvars, dlvvars>>
notOmp == <<v3vars, partvars, v2vars, codecvars, pipevars, v1vars, tryvars, dlvvars>>
notTry == <<v3vars, partvars, v2vars, codecvars, pipevars, v1vars, ompvars, dlvvars>>
notDeliver == <<v3vars, partvars, v2vars, codecvars, pipevars, v1vars,
                ompvars, tryvars>>

Procs == 0 .. (numProcesses - 1)

\* KeySpace emptySpace{0, 0, 0}
emptySpace == KeySpace(0, 0, 0)

Msg(src, tag, key, sp) == [src |-> src, tag |-> tag, key |-> key, space |-> sp]

\* the end of the range v3 partitions: (1L << 56) - 1
KeySpaceEnd == Pow2(KeyBits) - 1

MatchSets == {M \in SUBSET KeyIds : Cardinality(M) <= MaxMatches}

CodecIdle ==
    /\ cKeyA = 0
    /\ cKeyB = 0
    /\ blobA = <<>>
    /\ blobB = <<>>
    /\ cEncoded = TRUE

PipeIdle ==
    /\ pSpace = KeySpace(0, 0, 0)
    /\ pMatch = {}
    /\ generatedKeys = <<>>
    /\ encryptedData = <<>>
    /\ pKeyFound = FALSE
    /\ pFoundKey = 0
    /\ mtx = "free"
    /\ tpc = [t \in {"G", "E", "V"} |-> "done"]
    /\ gKey = 0
    /\ eKey = 0
    /\ vItem = 0
    /\ pcS = "returned"
    /\ pResult = 0
    /\ pushedAfter = 0
    /\ decryptsAfter = 0
    /\ evalsAfter = 0
    /\ genHist = <<>>
    /\ cmpHist = <<>>

V1Idle ==
    /\ numProcesses1 = 1
    /\ Match1 = {}
    /\ key1 = [p \in {0} |-> 0]
    /\ foundKey1 = [p \in {0} |-> 0]
    /\ request1 = [p \in {0} |-> "null"]
    /\ pc1 = [p \in {0} |-> "done"]
    /\ mailbox1 = [p \in {0} |-> {}]
    /\ output1 = [p \in {0} |-> <<>>]
    /\ found1 = {}

OmpIdle ==
    /\ oStart = 0
    /\ oEnd = 0
    /\ oMatch = {}
    /\ oNext = 0
    /\ oKey = [t \in 1..NumThreads |-> 0]
    /\ opc = [t \in 1..NumThreads |-> "end"]
    /\ oKeyFound = FALSE
    /\ oFoundKey = 0
    /\ oLate = 0

TryIdle ==
    /\ tVer = "none"
    /\ tLow = 0
    /\ tHigh = 0
    /\ tMatch = {}
    /\ tRejected = {}
    /\ tKey = 0
    /\ tTemp = "zero"
    /\ tStep = "done"
    /\ tAccepted = {}
    /\ tSkipped = {}

DeliverIdle ==
    /\ dVer = "none"
    /\ dKey = 0
    /\ dProc = <<>>
    /\ dBefore = <<>>
    /\ dOnce = <<>>
    /\ dCount = 0

PartIdle ==
    /\ gStart = 0
    /\ gEnd = 0
    /\ gNumSpaces = 1
    /\ gSpaces = <<>>
    /\ gReturned = TRUE
    /\ gError = "none"

Procs2 == 0 .. (numProcesses2 - 1)

V2Idle ==
    /\ numProcesses2 = 1
    /\ Match2 = {}
    /\ currentKey = [p \in Procs2 |-> 0]
    /\ chunkEnd = [p \in Procs2 |-> 0]
    /\ foundKey2 = [p \in Procs2 |-> 0]
    /\ keyFound2 = [p \in Procs2 |-> FALSE]
    /\ globalFoundKey = [p \in Procs2 |-> 0]
    /\ globalKeyFound = [p \in Procs2 |-> FALSE]
    /\ pc2 = [p \in Procs2 |-> "done"]
    /\ mailbox2 = [d \in Procs2 |-> [s \in Procs2 |-> <<>>]]
    /\ output2 = [p \in Procs2 |-> <<>>]

(***************************************************************************)
(* v3: the state when main() reaches the distribution (line 428).          *)
(* mailbox[d][s] holds, in the order sent, the messages rank s has sent to *)
(* rank d that d has not received (MPI keeps the order between one pair of *)
(* ranks; small MPI_Send calls return once the message is buffered).       *)
(***************************************************************************)
InitRanks(matchSets) ==
    /\ numProcesses \in 1..MaxProcs
    /\ keySpaces \in generateIntelligentKeySpaces(0, KeySpaceEnd,
                        numProcesses * SpacesPerProcess,
                        DistinctDraws(numProcesses * SpacesPerProcess))
    /\ Match \in matchSets
    /\ localKeySpaces = [p \in Procs |-> <<>>]
    /\ space = [p \in Procs |-> emptySpace]
    /\ foundKey = [p \in Procs |-> 0]
    /\ keyFound = [p \in Procs |-> FALSE]
    /\ pc = [p \in Procs |-> IF p = 0 THEN "distribute" ELSE "recvInitial"]
    /\ mailbox = [d \in Procs |-> [s \in Procs |-> <<>>]]
    /\ output = [p \in Procs |-> <<>>]
    /\ scanned = {}
    /\ sent = {}

\* the sets of matching KeyIds of v3.  decrypt (lines 102-128) sets the
\* parity bits of the key and asks DES_set_key_checked, which refuses the
\* weak key 0101010101010101 that KeyId 0 becomes; the buffer of that key
\* stays all zero (line 266) and the strstr of line 288 fails on it: KeyId 0
\* never matches
MatchSetsV3 == {M \in MatchSets : 0 \notin M}

InitV3 == InitRanks(MatchSetsV3)

\* MPI_Send of the messages msgs from src to dst
Deliver(mb, src, dst, msgs) == [mb EXCEPT ![dst][src] = @ \o msgs]

\* the position in mailbox[p][s] of the message MPI_Recv(tag, source s)
\* matches: the earliest one with the tag; 0 when there is none
FirstWithTag(p, s, tag) ==
    IF \E i \in 1..Len(mailbox[p][s]) : mailbox[p][s][i].tag = tag
    THEN Min({i \in 1..Len(mailbox[p][s]) : mailbox[p][s][i].tag = tag})
    ELSE 0

\* the sources a receive of rank p with this tag can match now
Sources(p, tag) == {s \in Procs : FirstWithTag(p, s, tag) # 0}

RemoveAt(q, i) == SubSeq(q, 1, i - 1) \o SubSeq(q, i + 1, Len(q))

\* mailbox after rank p received the earliest message with the tag from s
Received(mb, p, s, tag) ==
    [mb EXCEPT ![p][s] = RemoveAt(@, FirstWithTag(p, s, tag))]

\* spacesToSend for rank i when the vector holds size elements (line 432)
SpacesToSend(i, size) ==
    IF i = numProcesses - 1
    THEN size - (numProcesses - 1) * SpacesPerProcess
    ELSE SpacesPerProcess

PoppedFromBackNoPop(ks, j) == ks[Len(ks)]

\* the j-th element popped from the back of ks, j = 1, 2, ...
PoppedFromBack(ks, j) == ks[Len(ks) - j + 1]


\* lines 431-439 from rank i on: the vector and the mailboxes at the end
RECURSIVE DistributeFrom(_, _, _)
DistributeFrom(i, ks, mb) ==
    IF i >= numProcesses THEN [keySpaces |-> ks, mailbox |-> mb]
    ELSE LET n == SpacesToSend(i, Len(ks))
             cnt == IF n > 0 THEN n ELSE 0
         IN DistributeFrom(i + 1,
                SubSeq(ks, 1, Len(ks) - cnt),
                Deliver(mb, 0, i,
                    <<Msg(0, TagCount, n, emptySpace)>> \o
                    [j \in 1..cnt |-> Msg(0, TagSpace, 0, PoppedFromBack(ks, j))]))

\* rank 0, lines 430-440
Distribute ==
    /\ pc[0] = "distribute"
    /\ LET r == DistributeFrom(0, keySpaces, mailbox) IN
        /\ keySpaces' = r.keySpaces
        /\ mailbox' = r.mailbox
        /\ sent' = sent \cup UNION {{<<0, d, r.mailbox[d][0][i].tag>> :
                                        i \in 1..Len(r.mailbox[d][0])} : d \in Procs}
    /\ pc' = [pc EXCEPT ![0] = "recvInitial"]
    /\ UNCHANGED <<numProcesses, Match, localKeySpaces, space, foundKey,
                   keyFound, output, scanned>>
    /\ UNCHANGED notV3

\* ParallelKeySearch::searchRange by its return value (line 308): foundKey
\* of the pipeline, 0 unless the Verify stage matched; the stages handle the
\* keys first in, first out, so the match is the smallest of the range
searchRange(sp) ==
    IF KeysOf(sp) \cap Match # {} THEN Min(KeysOf(sp) \cap Match) ELSE 0

\* lines 456-460, rank p at the loop test with lks as its local vector and
\* keyFound false: pop_back and the call of searchRange, or the loop ends
EnterLoop(p, lks) ==
    IF lks # <<>>
    THEN /\ space' = [space EXCEPT ![p] = lks[Len(lks)]]
         /\ localKeySpaces' = [localKeySpaces EXCEPT
                                  ![p] = SubSeq(lks, 1, Len(lks) - 1)]
         /\ pc' = [pc EXCEPT ![p] = "searchRange"]
    ELSE /\ space' = space
         /\ localKeySpaces' = [localKeySpaces EXCEPT ![p] = lks]
         /\ pc' = [pc EXCEPT ![p] = "report"]

\* every rank, lines 442-448, then the first loop test
ReceiveInitial(p) ==
    /\ pc[p] = "recvInitial"
    /\ FirstWithTag(p, 0, TagCount) # 0
    /\ LET localSpacesCount == mailbox[p][0][FirstWithTag(p, 0, TagCount)].key
           spaces == SelectSeq(mailbox[p][0], LAMBDA m : m.tag = TagSpace)
           cnt == IF localSpacesCount > 0 THEN localSpacesCount ELSE 0
       IN
        /\ Len(spaces) >= cnt
        /\ EnterLoop(p, [j \in 1..cnt |-> spaces[j].space])
        /\ mailbox' = [mailbox EXCEPT ![p][0] =
                          SelectSeq(@, LAMBDA m : m.tag # TagCount /\ m.tag # TagSpace)]
    /\ UNCHANGED <<numProcesses, Match, keySpaces, foundKey, keyFound,
                   output, scanned, sent>>
    /\ UNCHANGED notV3

\* searchRange never returns: pipelineEncrypt (line 257) and pipelineCompare
\* (line 282) wait on the condition variable with nobody left to notify
\* them once the range is used up, and join (lines 304-306) waits for them
SearchHang(p) ==
    /\ pc[p] = "searchRange"
    /\ pc' = [pc EXCEPT ![p] = "hung"]
    /\ UNCHANGED <<numProcesses, Match, keySpaces, localKeySpaces, space,
                   foundKey, keyFound, mailbox, output, scanned, sent>>
    /\ UNCHANGED notV3

\* lines 462-468 without the break of line 467: rank 0 goes on to serve
AnnounceFoundNoBreak(p, key) ==
    /\ keyFound' = [keyFound EXCEPT ![p] = TRUE]
    /\ mailbox' = [d \in Procs |->
                     [mailbox[d] EXCEPT ![p] =
                         Append(@, Msg(p, TagFound, key, emptySpace))]]
    /\ sent' = sent \cup {<<p, d, TagFound>> : d \in Procs}
    /\ pc' = [pc EXCEPT ![p] = IF p = 0 THEN "waitRequest" ELSE "report"]
    /\ UNCHANGED <<keySpaces, localKeySpaces, space, output>>

\* lines 462-468: the finder sends the key to every rank, itself included
AnnounceFound(p, key) ==
    /\ keyFound' = [keyFound EXCEPT ![p] = TRUE]
    /\ mailbox' = [d \in Procs |->
                     [mailbox[d] EXCEPT ![p] =
                         Append(@, Msg(p, TagFound, key, emptySpace))]]
    /\ sent' = sent \cup {<<p, d, TagFound>> : d \in Procs}
    /\ pc' = [pc EXCEPT ![p] = "report"]
    /\ UNCHANGED <<keySpaces, localKeySpaces, space, output>>

\* lines 472-477: MPI_Iprobe saw a tag-2 message of source s, MPI_Recv
\* takes it
AdoptFound(p, s) ==
    /\ foundKey' = [foundKey EXCEPT
                      ![p] = mailbox[p][s][FirstWithTag(p, s, TagFound)].key]
    /\ keyFound' = [keyFound EXCEPT ![p] = TRUE]
    /\ mailbox' = Received(mailbox, p, s, TagFound)
    /\ pc' = [pc EXCEPT ![p] = "report"]
    /\ UNCHANGED <<keySpaces, localKeySpaces, space, output, sent>>

\* line 480 without the test of localKeySpaces.empty(): a worker asks for
\* work after every scan
AfterProbeAlwaysAsk(p) ==
    /\ UNCHANGED <<keyFound, keySpaces, output>>
    /\ IF p = 0
       THEN /\ pc' = [pc EXCEPT ![p] = "waitRequest"]
            /\ UNCHANGED <<mailbox, sent, space, localKeySpaces>>
       ELSE /\ mailbox' = Deliver(mailbox, p, 0, <<Msg(p, TagRequest, p, emptySpace)>>)
            /\ sent' = sent \cup {<<p, 0, TagRequest>>}
            /\ pc' = [pc EXCEPT ![p] = "waitReply"]
            /\ UNCHANGED <<space, localKeySpaces>>

\* lines 480-481 and 489-492 after a probe that saw nothing: a worker with
\* an empty vector sends its request and blocks in MPI_Recv (tag 4), rank 0
\* blocks in MPI_Recv (tag 3), a worker with ranges left is at the loop test
AfterProbe(p) ==
    /\ UNCHANGED <<keyFound, keySpaces, output>>
    /\ IF p = 0
       THEN /\ pc' = [pc EXCEPT ![p] = "waitRequest"]
            /\ UNCHANGED <<mailbox, sent, space, localKeySpaces>>
       ELSE IF localKeySpaces[p] = <<>>
       THEN /\ mailbox' = Deliver(mailbox, p, 0, <<Msg(p, TagRequest, p, emptySpace)>>)
            /\ sent' = sent \cup {<<p, 0, TagRequest>>}
            /\ pc' = [pc EXCEPT ![p] = "waitReply"]
            /\ UNCHANGED <<space, localKeySpaces>>
       ELSE /\ UNCHANGED <<mailbox, sent>>
            /\ EnterLoop(p, localKeySpaces[p])

\* lines 460-492: searchRange has returned fk and the iteration runs to its
\* next blocking call.  MPI_Iprobe may miss an announcement that was sent
\* but has not arrived yet.
AfterSearch(p, fk) ==
    /\ IF fk # 0
       THEN /\ foundKey' = [foundKey EXCEPT ![p] = fk]
            /\ scanned' = scanned
            /\ AnnounceFound(p, fk)
       ELSE /\ scanned' = scanned \cup {space[p]}
            /\ \/ \E s \in Sources(p, TagFound) : AdoptFound(p, s)
               \/ /\ foundKey' = [foundKey EXCEPT ![p] = 0]
                  /\ AfterProbe(p)
    /\ UNCHANGED <<numProcesses, Match>>
    /\ UNCHANGED notV3

\* searchRange returns: pipelineCompare matched (lines 288-292), which ends
\* the three stage threads, and the joins of lines 304-306 complete
SearchReturn(p) ==
    /\ pc[p] = "searchRange"
    /\ KeysOf(space[p]) \cap Match # {}
    /\ AfterSearch(p, searchRange(space[p]))

\* searchRange returns for a range without a match, as the loop of main()
\* is written to handle (lines 470-501).  The stage threads of lines 252-295
\* do not end in this case, so this step is part of SpecMain only.
SearchReturnNoMatch(p) ==
    /\ pc[p] = "searchRange"
    /\ KeysOf(space[p]) \cap Match = {}
    /\ AfterSearch(p, searchRange(space[p]))

\* a worker, lines 482-486: the reply arrives; then the loop test
ReceiveReply(p) ==
    /\ pc[p] = "waitReply"
    /\ FirstWithTag(p, 0, TagReply) # 0
    /\ LET sp == mailbox[p][0][FirstWithTag(p, 0, TagReply)].space IN
        IF sp.start # sp.end
        THEN \* space = sp, push_back(space), and the loop pops it again
             /\ space' = [space EXCEPT ![p] = sp]
             /\ localKeySpaces' = localKeySpaces
             /\ pc' = [pc EXCEPT ![p] = "searchRange"]
        ELSE /\ space' = [space EXCEPT ![p] = sp]
             /\ localKeySpaces' = localKeySpaces
             /\ pc' = [pc EXCEPT ![p] = "report"]
    /\ mailbox' = Received(mailbox, p, 0, TagReply)
    /\ UNCHANGED <<numProcesses, Match, keySpaces, foundKey, keyFound, output,
                   scanned, sent>>
    /\ UNCHANGED notV3

\* line 494: the range rank 0 replies with
SpaceToSend(ks) == IF ks # <<>> THEN ks[Len(ks)] ELSE emptySpace

AfterDispatchNoPop(ks) == ks

\* line 495: the vector after the reply was taken from it
AfterDispatch(ks) == IF ks # <<>> THEN SubSeq(ks, 1, Len(ks) - 1) ELSE ks

\* rank 0, lines 492-500: a request arrives and is answered; then the loop
\* test
ServeRequest ==
    /\ pc[0] = "waitRequest"
    /\ \E s \in Sources(0, TagRequest) :
        LET requestingRank == mailbox[0][s][FirstWithTag(0, s, TagRequest)].key IN
        /\ mailbox' = Deliver(Received(mailbox, 0, s, TagRequest), 0, requestingRank,
                              <<Msg(0, TagReply, 0, SpaceToSend(keySpaces))>>)
        /\ sent' = sent \cup {<<0, requestingRank, TagReply>>}
    /\ keySpaces' = AfterDispatch(keySpaces)
    /\ EnterLoop(0, localKeySpaces[0])
    /\ UNCHANGED <<numProcesses, Match, foundKey, keyFound, output, scanned>>
    /\ UNCHANGED notV3

\* lines 507-522: rank 0 prints its result; the other ranks print nothing
Report(p) ==
    /\ pc[p] = "report"
    /\ output' = [output EXCEPT ![p] =
                     IF p # 0 THEN @
                     ELSE IF keyFound[0]
                          THEN Append(@, <<"Key found", foundKey[0]>>)
                          ELSE Append(@, <<"Key not found">>)]
    /\ pc' = [pc EXCEPT ![p] = "done"]
    /\ UNCHANGED <<numProcesses, Match, keySpaces, localKeySpaces, space,
                   foundKey, keyFound, mailbox, scanned, sent>>
    /\ UNCHANGED notV3

\* the program as written: a scan ends only with a match, so no rank that
\* asks for work and no rank 0 waiting for a request ever meet
NextV3 ==
    \/ Distribute
    \/ \E p \in Procs : ReceiveInitial(p)
    \/ \E p \in Procs : SearchHang(p)
    \/ \E p \in Procs : SearchReturn(p)
    \/ \E p \in Procs : Report(p)

\* main() around a searchRange that also returns for a range without a
\* match: every step of NextV3 and the request/reply exchange
NextMain ==
    \/ Distribute
    \/ \E p \in Procs : ReceiveInitial(p)
    \/ \E p \in Procs : SearchHang(p)
    \/ \E p \in Procs : SearchReturn(p)
    \/ \E p \in Procs : SearchReturnNoMatch(p)
    \/ \E p \in Procs : ReceiveReply(p)
    \/ ServeRequest
    \/ \E p \in Procs : Report(p)

V3Idle ==
    /\ numProcesses = 1
    /\ keySpaces = <<>>
    /\ Match = {}
    /\ localKeySpaces = [p \in Procs |-> <<>>]
    /\ space = [p \in Procs |-> emptySpace]
    /\ foundKey = [p \in Procs |-> 0]
    /\ keyFound = [p \in Procs |-> FALSE]
    /\ pc = [p \in Procs |-> "done"]
    /\ mailbox = [d \in Procs |-> [s \in Procs |-> <<>>]]
    /\ output = [p \in Procs |-> <<>>]
    /\ scanned = {}
    /\ sent = {}

Init == InitV3 /\ PartIdle /\ V2Idle /\ CodecIdle /\ PipeIdle /\ V1Idle /\ OmpIdle /\ TryIdle /\ DeliverIdle
Next == NextV3
Spec == Init /\ [][Next]_vars

\* SpecMain starts like Spec, with at most MaxMatchesMain matching keys
InitMain ==
    /\ InitRanks({M \in MatchSetsV3 : Cardinality(M) <= MaxMatchesMain})
    /\ PartIdle
    /\ V2Idle
    /\ DeliverIdle
    /\ TryIdle
    /\ OmpIdle
    /\ V1Idle
    /\ PipeIdle
    /\ CodecIdle

SpecMain == InitMain /\ [][NextMain]_vars

(***************************************************************************)
(* generateIntelligentKeySpaces on its own: called once on arguments drawn *)
(* from small sets, the priorities drawn with ties.                        *)
(***************************************************************************)
InitPart ==
    /\ gStart \in (-1)..1
    /\ gEnd \in (-1)..MaxEnd
    /\ gNumSpaces \in (-1)..MaxSpaces
    /\ gSpaces = <<>>
    /\ gReturned = FALSE
    /\ gError = "none"

\* lines 200-218.  The function tests none of its arguments and has no
\* error path.  numSpaces = 0 divides by zero in line 208, which is
\* undefined: the process is killed by the trap (SIGFPE, integer division
\* on x86) or the division yields some value (e.g. 0 on ARM); in the latter
\* case, and for numSpaces < 0, the loop of line 210 is not entered and the
\* empty vector is returned.
Generate ==
    /\ ~gReturned
    /\ gReturned' = TRUE
    /\ IF gNumSpaces = 0
         THEN /\ gSpaces' = <<>>
              /\ gError' \in {"SIGFPE", "none"}
         ELSE IF gNumSpaces < 0
         THEN /\ gSpaces' = <<>>
              /\ gError' = "none"
         ELSE /\ gSpaces' \in generateIntelligentKeySpaces(gStart, gEnd,
                                     gNumSpaces, TiedDraws(gNumSpaces))
              /\ gError' = "none"
    /\ UNCHANGED <<gStart, gEnd, gNumSpaces>>
    /\ UNCHANGED notPart

PartInit == InitPart /\ V3Idle /\ V2Idle /\ CodecIdle /\ PipeIdle /\ V1Idle /\ OmpIdle /\ TryIdle /\ DeliverIdle
PartNext == Generate
SpecPart == PartInit /\ [][PartNext]_vars

(***************************************************************************)
(* v2: main() of mpi_bruteforce_v2.cpp from line 242 on.  mailbox2[d][s]   *)
(* holds the keys rank s has sent to rank d (tag 0) that d has not         *)
(* received.                                                               *)
(***************************************************************************)
\* uint64_t upperBound = (1ULL << 56)
upperBound == Pow2(KeyBits)

keysPerProcess == upperBound \div numProcesses2

lowerBound(p) == keysPerProcess * p

upperBoundLocal(p) ==
    IF p = numProcesses2 - 1 THEN upperBound ELSE lowerBound(p) + keysPerProcess

InitV2 ==
    /\ numProcesses2 \in 1..MaxProcs
    /\ Match2 \in MatchSets
    /\ currentKey = [p \in Procs2 |-> lowerBound(p)]
    /\ chunkEnd = [p \in Procs2 |-> lowerBound(p)]
    /\ foundKey2 = [p \in Procs2 |-> 0]
    /\ keyFound2 = [p \in Procs2 |-> FALSE]
    /\ globalFoundKey = [p \in Procs2 |-> 0]
    /\ globalKeyFound = [p \in Procs2 |-> FALSE]
    /\ pc2 = [p \in Procs2 |-> "loop"]
    /\ mailbox2 = [d \in Procs2 |-> [s \in Procs2 |-> <<>>]]
    /\ output2 = [p \in Procs2 |-> <<>>]

\* lines 306-310: the finder's MPI_Send to every other rank
SendFound(mb, p, key) ==
    [d \in Procs2 |-> IF d = p THEN mb[d]
                      ELSE [mb[d] EXCEPT ![p] = Append(@, key)]]

\* lines 264-312: one chunk is searched.  With a match in the chunk the
\* first thread to enter the critical section sets foundKey (any match of
\* the chunk, the schedule decides), the key is sent and the iteration
\* ends (line 333); without one the rank goes on to probe (line 317).
SearchChunk(p) ==
    /\ pc2[p] = "loop"
    /\ currentKey[p] < upperBoundLocal(p)
    /\ ~globalKeyFound[p]
    /\ LET ce == Min({currentKey[p] + ChunkSize, upperBoundLocal(p)})
           M  == Match2 \cap (currentKey[p] .. (ce - 1))
       IN
        /\ chunkEnd' = [chunkEnd EXCEPT ![p] = ce]
        /\ IF M # {}
           THEN \E key \in M :
                 /\ foundKey2' = [foundKey2 EXCEPT ![p] = key]
                 /\ keyFound2' = [keyFound2 EXCEPT ![p] = TRUE]
                 /\ mailbox2' = SendFound(mailbox2, p, key)
                 /\ globalFoundKey' = [globalFoundKey EXCEPT ![p] = key]
                 /\ globalKeyFound' = [globalKeyFound EXCEPT ![p] = TRUE]
                 /\ currentKey' = [currentKey EXCEPT ![p] = ce]
                 /\ pc2' = pc2
           ELSE /\ pc2' = [pc2 EXCEPT ![p] = "drain"]
                /\ UNCHANGED <<foundKey2, keyFound2, mailbox2, globalFoundKey,
                               globalKeyFound, currentKey>>
    /\ UNCHANGED <<numProcesses2, Match2, output2>>
    /\ UNCHANGED notV2

\* lines 318-325: MPI_Iprobe sees a key sent by rank s, MPI_Recv takes it
DrainRecv(p) ==
    /\ pc2[p] = "drain"
    /\ \E s \in Procs2 :
        /\ mailbox2[p][s] # <<>>
        /\ LET receivedKey == Head(mailbox2[p][s]) IN
            /\ globalFoundKey' = [globalFoundKey EXCEPT ![p] = receivedKey]
            /\ foundKey2' = [foundKey2 EXCEPT ![p] = receivedKey]
        /\ mailbox2' = [mailbox2 EXCEPT ![p][s] = Tail(@)]
    /\ globalKeyFound' = [globalKeyFound EXCEPT ![p] = TRUE]
    /\ keyFound2' = [keyFound2 EXCEPT ![p] = TRUE]
    /\ UNCHANGED <<numProcesses2, Match2, currentKey, chunkEnd, pc2, output2>>
    /\ UNCHANGED notV2

\* lines 326-333: MPI_Iprobe sees nothing (a key that was sent may not have
\* arrived yet), the inner loop ends and currentKey moves to chunkEnd
DrainEnd(p) ==
    /\ pc2[p] = "drain"
    /\ currentKey' = [currentKey EXCEPT ![p] = chunkEnd[p]]
    /\ pc2' = [pc2 EXCEPT ![p] = "loop"]
    /\ UNCHANGED <<numProcesses2, Match2, chunkEnd, foundKey2, keyFound2,
                   globalFoundKey, globalKeyFound, mailbox2, output2>>
    /\ UNCHANGED notV2

\* line 264: the loop condition fails and the rank enters the barrier
ExitLoop(p) ==
    /\ pc2[p] = "loop"
    /\ ~(currentKey[p] < upperBoundLocal(p) /\ ~globalKeyFound[p])
    /\ pc2' = [pc2 EXCEPT ![p] = "barrier"]
    /\ UNCHANGED <<numProcesses2, Match2, currentKey, chunkEnd, foundKey2,
                   keyFound2, globalFoundKey, globalKeyFound, mailbox2, output2>>
    /\ UNCHANGED notV2

\* line 337: MPI_Barrier lets the ranks go once all of them have entered
Barrier ==
    /\ \A p \in Procs2 : pc2[p] = "barrier"
    /\ pc2' = [p \in Procs2 |-> "report"]
    /\ UNCHANGED <<numProcesses2, Match2, currentKey, chunkEnd, foundKey2,
                   keyFound2, globalFoundKey, globalKeyFound, mailbox2, output2>>
    /\ UNCHANGED notV2

\* lines 341-351: rank 0 prints its result
Report2(p) ==
    /\ pc2[p] = "report"
    /\ output2' = [output2 EXCEPT ![p] =
                      IF p # 0 THEN @
                      ELSE IF globalFoundKey[0] # 0
                           THEN Append(@, <<"Key found", globalFoundKey[0]>>)
                           ELSE Append(@, <<"Key not found">>)]
    /\ pc2' = [pc2 EXCEPT ![p] = "done"]
    /\ UNCHANGED <<numProcesses2, Match2, currentKey, chunkEnd, foundKey2,
                   keyFound2, globalFoundKey, globalKeyFound, mailbox2>>
    /\ UNCHANGED notV2

NextV2 ==
    \/ \E p \in Procs2 : SearchChunk(p)
    \/ \E p \in Procs2 : DrainRecv(p)
    \/ \E p \in Procs2 : DrainEnd(p)
    \/ \E p \in Procs2 : ExitLoop(p)
    \/ Barrier
    \/ \E p \in Procs2 : Report2(p)

V2Init == InitV2 /\ V3Idle /\ PartIdle /\ CodecIdle /\ PipeIdle /\ V1Idle /\ OmpIdle /\ TryIdle /\ DeliverIdle
SpecV2 == V2Init /\ [][NextV2]_vars

(***************************************************************************)
(* Properties of v3 (specification Spec).                                  *)
(***************************************************************************)
\* rank p can take no step: it has finished, its searchRange does not
\* return, or it is blocked in an MPI_Recv that no message matches
Stopped(p) ==
    \/ pc[p] \in {"done", "hung"}
    \/ pc[p] = "waitReply" /\ FirstWithTag(p, 0, TagReply) = 0
    \/ pc[p] = "waitRequest" /\ Sources(p, TagRequest) = {}
    \/ pc[p] = "recvInitial" /\ FirstWithTag(p, 0, TagCount) = 0

\* no rank can take a step: the run has ended or is stuck for good
Quiescent == \A p \in Procs : Stopped(p)

NoKeyFound == \A p \in Procs : ~keyFound[p]

\* some rank has sent a found-key announcement
Announced == \E p, d \in Procs : <<p, d, TagFound>> \in sent

\* the ranks whose own searchRange returned a key, and the keys they found
Finders == {p \in Procs : <<p, p, TagFound>> \in sent}
Discovered == {foundKey[p] : p \in Finders}

RECURSIVE ConcatAll(_, _)
\* the sequences f[x], x in S, one after the other
ConcatAll(f, S) ==
    IF S = {} THEN <<>>
    ELSE f[Min(S)] \o ConcatAll(f, S \ {Min(S)})

\* the ranges carried by the messages of one channel
RangesIn(q) ==
    LET c == SelectSeq(q, LAMBDA m : m.tag \in {TagSpace, TagReply})
    IN [i \in 1..Len(c) |-> c[i].space]

\* every range held somewhere other than the scanned set, one entry per
\* place: rank 0's vector, the local vectors, the running scans, the
\* messages in flight
HeldSeq ==
    keySpaces
    \o ConcatAll([p \in Procs |-> localKeySpaces[p]], Procs)
    \o ConcatAll([p \in Procs |-> IF pc[p] \in {"searchRange", "hung"}
                                  THEN <<space[p]>> ELSE <<>>], Procs)
    \o ConcatAll([d \in Procs |->
                    ConcatAll([s \in Procs |-> RangesIn(mailbox[d][s])], Procs)],
                 Procs)

\* the bounds of the ranges the partitioner produced for this run
PartitionBounds ==
    LET n == numProcesses * SpacesPerProcess
        v == UnsortedSpaces(0, KeySpaceEnd, n, [j \in 1..n |-> 0])
    IN {<<v[j].start, v[j].end>> : j \in 1..n}

\* C1: with exactly one matching KeyId, a run that can go no further has
\* ended with rank 0 printing "Key found" with that KeyId, and nothing else.
C1_Completeness ==
    (Cardinality(Match) = 1 /\ Quiescent)
        => output[0] = << <<"Key found", Min(Match)>> >>

\* C2: with no matching KeyId, a run that can go no further has ended with
\* rank 0 printing "Key not found", and whenever rank 0 has printed it the
\* backlog is empty and every range has been scanned.
C2_NoFalseResult ==
    Match = {} =>
        /\ Quiescent => output[0] = << <<"Key not found">> >>
        /\ output[0] # <<>> =>
              /\ keySpaces = <<>>
              /\ \A p \in Procs : localKeySpaces[p] = <<>>
              /\ \A b \in PartitionBounds :
                    \E r \in scanned : <<r.start, r.end>> = b

\* C3: a run that can go no further has every rank out of its search loop
\* and finished: none is left in searchRange, in the receive of a
\* work-request (tag 3) or in the receive of a work-reply (tag 4).
C3_AllTerminate ==
    Quiescent => \A p \in Procs : pc[p] = "done"

\* C4: once a found key has been announced, a run that can go no further
\* has no rank left scanning, waiting for a work-reply or waiting for a
\* work-request.
C4_FoundPropagation ==
    (Announced /\ Quiescent) =>
        \A p \in Procs : pc[p] \notin {"hung", "waitReply", "waitRequest"}

\* C6: when a run can go no further, every rank that holds a found key holds
\* the smallest of the keys the ranks discovered.
C6_SmallestKeyWins ==
    Quiescent =>
        \A p \in Procs : keyFound[p] => foundKey[p] = Min(Discovered)

\* C7: before any rank has found or adopted a key, the places that hold
\* ranges (rank 0's vector, the messages in flight, the local vectors, the
\* running scans, the scanned set) hold pairwise disjoint ranges, so no
\* KeyId is held twice, and together they hold exactly the ranges the
\* partitioner produced, so none is lost.
C7_RangeOwnership ==
    NoKeyFound =>
        LET h == HeldSeq IN
        /\ \A i, j \in 1..Len(h) :
              i # j => KeysOf(h[i]) \cap KeysOf(h[j]) = {}
        /\ \A i \in 1..Len(h) : \A r \in scanned :
              KeysOf(h[i]) \cap KeysOf(r) = {}
        /\ \A r1, r2 \in scanned :
              r1 # r2 => KeysOf(r1) \cap KeysOf(r2) = {}
        /\ {<<h[i].start, h[i].end>> : i \in 1..Len(h)}
             \cup {<<r.start, r.end>> : r \in scanned} = PartitionBounds

\* C7's case: ranges in the backlog, in a work-reply in flight, in a running
\* scan and among the scanned ranges at once, no key found yet
C7_Witness ==
    /\ NoKeyFound
    /\ keySpaces # <<>>
    /\ scanned # {}
    /\ \E p \in Procs : pc[p] = "searchRange"
    /\ \E d \in Procs : FirstWithTag(d, 0, TagReply) # 0

\* C9: only rank 0 prints, it prints at most one result, exactly one when
\* the run can go no further, and when it has printed every rank has left
\* its search loop.
C9_ExitContract ==
    /\ \A p \in Procs \ {0} : output[p] = <<>>
    /\ Len(output[0]) <= 1
    /\ Quiescent => Len(output[0]) = 1
    /\ output[0] # <<>> => \A p \in Procs : pc[p] \in {"report", "done"}

(***************************************************************************)
(* Properties of generateIntelligentKeySpaces (specification SpecPart).    *)
(***************************************************************************)
SizeOf(sp) == sp.end - sp.start

\* C8: for start < end and numSpaces >= 1 the function returns numSpaces
\* half-open ranges, pairwise disjoint, whose union is [start, end); every
\* range has the size of the integer quotient except one with the largest
\* start, which has the quotient plus the remainder.
C8_PartitionCoverage ==
    (gReturned /\ gStart < gEnd /\ gNumSpaces >= 1) =>
        /\ Len(gSpaces) = gNumSpaces
        /\ \A i \in 1..Len(gSpaces) : gSpaces[i].start <= gSpaces[i].end
        /\ \A i, j \in 1..Len(gSpaces) :
              i # j => KeysOf(gSpaces[i]) \cap KeysOf(gSpaces[j]) = {}
        /\ UNION {KeysOf(gSpaces[i]) : i \in 1..Len(gSpaces)} = gStart..(gEnd - 1)
        /\ \E i \in 1..Len(gSpaces) :
              /\ \A j \in 1..Len(gSpaces) : gSpaces[j].start <= gSpaces[i].start
              /\ SizeOf(gSpaces[i]) = ((gEnd - gStart) \div gNumSpaces)
                                       + ((gEnd - gStart) % gNumSpaces)
              /\ \A j \in 1..Len(gSpaces) :
                    j # i => SizeOf(gSpaces[j]) = (gEnd - gStart) \div gNumSpaces

\* C8's case: a call whose division leaves a remainder, the range that
\* absorbs it sorted to the front of the vector
C8_Witness ==
    /\ gReturned
    /\ gStart < gEnd
    /\ gNumSpaces >= 2
    /\ (gEnd - gStart) % gNumSpaces # 0
    /\ gSpaces[1].end = gEnd

\* C13: a call with numSpaces < 1 or with an empty or inverted full range
\* (end <= start) ends with the error InvalidArgument and without ranges.
C13_InvalidArguments ==
    (gReturned /\ (gNumSpaces < 1 \/ gEnd <= gStart)) =>
        /\ gError = "InvalidArgument"
        /\ gSpaces = <<>>

(***************************************************************************)
(* Properties of v2 (specification SpecV2).                                *)
(***************************************************************************)
\* C5: once a rank's globalFoundKey holds a key (globalKeyFound is true),
\* no step changes it to a different key.
C5_WrittenOnce ==
    [][\A p \in Procs2 :
          globalKeyFound[p] => globalFoundKey'[p] = globalFoundKey[p]]_vars

\* the ranks whose own chunk search set foundKey: the key lies in their slice
Finders2 ==
    {p \in Procs2 : /\ keyFound2[p]
                    /\ foundKey2[p] \in lowerBound(p) .. (upperBoundLocal(p) - 1)}

\* C12: when rank 0 of v2 has printed and some rank found a matching key
\* itself, rank 0's output is exactly 'Key found' with a finder's key.
\* Stated for the runs in which KeyId 0 is not a match, so that the reading
\* of foundKey 0 as 'not found' plays no part.
C12_ReportAgreesV2 ==
    (pc2[0] = "done" /\ Finders2 # {} /\ 0 \notin Match2) =>
        \E p \in Finders2 : output2[0] = << <<"Key found", foundKey2[p]>> >>

(***************************************************************************)
(* Properties of the initial distribution of v3 (specification Spec).      *)
(***************************************************************************)
\* C14: the ranges generated at start (line 425) contain every KeyId below
\* the key-space bound, the largest included.
C14_BoundCoverage ==
    pc[0] = "distribute" =>
        \A k \in KeyIds : \E i \in 1..Len(keySpaces) : k \in KeysOf(keySpaces[i])

\* the messages rank 0 has sent to rank d in the distribution, not received
InitialMessages(d, tag) == SelectSeq(mailbox[d][0], LAMBDA m : m.tag = tag)

\* C20: once rank 0 has distributed, every rank that has not yet received
\* its slice has a count of SpacesPerProcess announced to it, followed by
\* exactly that many ranges, none of them empty.
C20_InitialSeeding ==
    \A d \in Procs :
        (pc[0] # "distribute" /\ pc[d] = "recvInitial") =>
            /\ Len(InitialMessages(d, TagCount)) = 1
            /\ InitialMessages(d, TagCount)[1].key = SpacesPerProcess
            /\ Len(InitialMessages(d, TagSpace)) = SpacesPerProcess
            /\ \A i \in 1..Len(InitialMessages(d, TagSpace)) :
                  KeysOf(InitialMessages(d, TagSpace)[i].space) # {}

(***************************************************************************)
(* longToKey on its own (specification SpecCodec).  A byte of the key blob *)
(* has ByteBits bits (8 in the source).                                    *)
(***************************************************************************)
\* keyArray[7 - i] = (key >> (i * 8)) & 0xFF with the shift widened by one
\* byte: the lowest byte of the key is lost
longToKeyShifted(key) ==
    [j \in 1..KeyBytes |->
        (key \div Pow2((KeyBytes - j + 1) * ByteBits)) % Pow2(ByteBits)]

\* for (i = 0; i < 8; ++i) keyArray[7 - i] = (key >> (i * 8)) & 0xFF;
\* keyArray[0] is element 1 of the sequence
longToKey(key) ==
    [j \in 1..KeyBytes |->
        (key \div Pow2((KeyBytes - j) * ByteBits)) % Pow2(ByteBits)]

InitCodec ==
    /\ cKeyA \in KeyIds
    /\ cKeyB \in KeyIds
    /\ blobA = <<>>
    /\ blobB = <<>>
    /\ cEncoded = FALSE

\* the two calls of longToKey
Encode ==
    /\ ~cEncoded
    /\ blobA' = longToKey(cKeyA)
    /\ blobB' = longToKey(cKeyB)
    /\ cEncoded' = TRUE
    /\ UNCHANGED <<cKeyA, cKeyB>>
    /\ UNCHANGED notCodec

CodecInit == InitCodec /\ V3Idle /\ PartIdle /\ V2Idle /\ PipeIdle /\ V1Idle /\ OmpIdle /\ TryIdle /\ DeliverIdle
CodecNext == Encode
SpecCodec == CodecInit /\ [][CodecNext]_vars

\* reading a blob as a big-endian number with bytes of ByteBits bits
RECURSIVE BigEndianValue(_)
BigEndianValue(blob) ==
    IF Len(blob) = 0 THEN 0
    ELSE BigEndianValue(SubSeq(blob, 1, Len(blob) - 1)) * Pow2(ByteBits)
         + blob[Len(blob)]

\* C16: longToKey gives distinct KeyIds of the search domain distinct
\* blobs of KeyBytes bytes, and the big-endian reading of the blob is the
\* KeyId again.
C16_CodecInjective ==
    cEncoded =>
        /\ Len(blobA) = KeyBytes
        /\ \A j \in 1..KeyBytes : blobA[j] \in 0 .. (Pow2(ByteBits) - 1)
        /\ (blobA = blobB) => (cKeyA = cKeyB)
        /\ BigEndianValue(blobA) = cKeyA

\* C16's case: two KeyIds that differ only in their lowest byte, one of
\* them the largest KeyId, have been encoded
C16_Witness ==
    /\ cEncoded
    /\ cKeyA = Pow2(KeyBits) - 1
    /\ cKeyB = cKeyA - 1
    /\ blobA # blobB

(***************************************************************************)
(* One call of searchRange, thread by thread (specification SpecPipe).     *)
(* The stage threads are G (pipelineGenerate), E (pipelineEncrypt) and V   *)
(* (pipelineCompare).  A critical section that reads nothing but data      *)
(* guarded by the mutex is one step; keyFound is written outside the mutex *)
(* (line 289), so every read of it is a step of its own.                   *)
(* cv.wait(lock, pred) is: while (!pred()) wait(lock), where wait(lock)    *)
(* releases the mutex and blocks in one atomic step, and a woken thread    *)
(* takes the mutex again before it tests pred.                             *)
(***************************************************************************)
Threads == {"G", "E", "V"}

\* the threads blocked inside cv.wait
Waiting == {t \in Threads : tpc[t] = "waiting"}

\* the predicates of the two cv.wait calls (lines 257, 282)
WaitPred(t) ==
    IF t = "E" THEN generatedKeys # <<>> \/ pKeyFound
    ELSE encryptedData # <<>> \/ pKeyFound

InitPipe ==
    /\ pSpace \in {KeySpace(s, e, 0) : s \in 0..PipeMaxEnd, e \in 0..PipeMaxEnd}
    \* KeyId 0 never matches: DES_set_key_checked refuses its key
    /\ pMatch \in SUBSET (1 .. (PipeMaxEnd - 1))
    /\ generatedKeys = <<>>
    /\ encryptedData = <<>>
    /\ pKeyFound = FALSE
    /\ pFoundKey = 0
    /\ mtx = "free"
    /\ tpc = [t \in Threads |-> IF t = "G" THEN "for" ELSE "while"]
    /\ gKey = pSpace.start
    /\ eKey = 0
    /\ vItem = 0
    /\ pcS = "joining"
    /\ pResult = 0
    /\ pushedAfter = 0
    /\ decryptsAfter = 0
    /\ evalsAfter = 0
    /\ genHist = <<>>
    /\ cmpHist = <<>>

\* cv.notify_one(): no effect without a waiter, otherwise any one waiter
\* is woken
NotifyOne(t, next) ==
    \/ /\ Waiting = {}
       /\ tpc' = [tpc EXCEPT ![t] = next]
    \/ \E w \in Waiting : tpc' = [tpc EXCEPT ![t] = next, ![w] = "wake"]

\* pipelineGenerate, lines 242-246: the loop test and the locked push
GenPush ==
    /\ tpc["G"] = "for"
    /\ IF gKey < pSpace.end
         THEN /\ mtx = "free"
              /\ generatedKeys' = Append(generatedKeys, gKey)
              /\ genHist' = Append(genHist, gKey)
              /\ pushedAfter' = IF pKeyFound THEN pushedAfter + 1 ELSE pushedAfter
              /\ tpc' = [tpc EXCEPT !["G"] = "notify"]
         ELSE /\ tpc' = [tpc EXCEPT !["G"] = "done"]
              /\ UNCHANGED <<generatedKeys, pushedAfter, genHist>>
    /\ UNCHANGED <<pSpace, pMatch, encryptedData, pKeyFound, pFoundKey, mtx,
                   gKey, eKey, vItem, pcS, pResult, decryptsAfter, evalsAfter>>
    /\ UNCHANGED cmpHist
    /\ UNCHANGED notPipe

\* line 247
GenNotify ==
    /\ tpc["G"] = "notify"
    /\ NotifyOne("G", "check")
    /\ UNCHANGED <<pSpace, pMatch, generatedKeys, encryptedData, pKeyFound,
                   pFoundKey, mtx, gKey, eKey, vItem, pcS, pResult,
                   pushedAfter, decryptsAfter, evalsAfter>>
    /\ UNCHANGED <<genHist, cmpHist>>
    /\ UNCHANGED notPipe

\* line 248 and the loop increment of line 242 with a step of 2: every
\* other key is left out
GenCheckSkip ==
    /\ tpc["G"] = "check"
    /\ IF pKeyFound
         THEN /\ tpc' = [tpc EXCEPT !["G"] = "done"]
              /\ gKey' = gKey
         ELSE /\ tpc' = [tpc EXCEPT !["G"] = "for"]
              /\ gKey' = gKey + 2
    /\ UNCHANGED <<pSpace, pMatch, generatedKeys, encryptedData, pKeyFound,
                   pFoundKey, mtx, eKey, vItem, pcS, pResult,
                   pushedAfter, decryptsAfter, evalsAfter>>
    /\ UNCHANGED <<genHist, cmpHist>>
    /\ UNCHANGED notPipe

\* line 248 without the break: the loop goes on whatever keyFound is
GenCheckNoBreak ==
    /\ tpc["G"] = "check"
    /\ tpc' = [tpc EXCEPT !["G"] = "for"]
    /\ gKey' = gKey + 1
    /\ UNCHANGED <<pSpace, pMatch, generatedKeys, encryptedData, pKeyFound,
                   pFoundKey, mtx, eKey, vItem, pcS, pResult,
                   pushedAfter, decryptsAfter, evalsAfter>>
    /\ UNCHANGED <<genHist, cmpHist>>
    /\ UNCHANGED notPipe

\* line 248: if (data.keyFound) break; else ++key
GenCheck ==
    /\ tpc["G"] = "check"
    /\ IF pKeyFound
         THEN /\ tpc' = [tpc EXCEPT !["G"] = "done"]
              /\ gKey' = gKey
         ELSE /\ tpc' = [tpc EXCEPT !["G"] = "for"]
              /\ gKey' = gKey + 1
    /\ UNCHANGED <<pSpace, pMatch, generatedKeys, encryptedData, pKeyFound,
                   pFoundKey, mtx, eKey, vItem, pcS, pResult,
                   pushedAfter, decryptsAfter, evalsAfter>>
    /\ UNCHANGED <<genHist, cmpHist>>
    /\ UNCHANGED notPipe

\* what the steps of the wait pattern shared by E and V leave alone
WaitFrame ==
    /\ UNCHANGED <<pSpace, pMatch, generatedKeys, encryptedData, pKeyFound,
                   pFoundKey, gKey, eKey, vItem, pcS, pResult,
                   pushedAfter, decryptsAfter, evalsAfter>>
    /\ UNCHANGED <<genHist, cmpHist>>
    /\ UNCHANGED notPipe

\* lines 253, 278: while (!data.keyFound)
WhileTest(t) ==
    /\ t \in {"E", "V"}
    /\ tpc[t] = "while"
    /\ tpc' = [tpc EXCEPT ![t] = IF pKeyFound THEN "done" ELSE "lock"]
    /\ UNCHANGED mtx
    /\ WaitFrame

\* lines 256, 281: the unique_lock; also the mutex taken again inside
\* cv.wait after a wake-up
Lock(t) ==
    /\ t \in {"E", "V"}
    /\ tpc[t] \in {"lock", "wake"}
    /\ mtx = "free"
    /\ mtx' = t
    /\ tpc' = [tpc EXCEPT ![t] = "pred"]
    /\ WaitFrame

\* lines 257, 282: the predicate of cv.wait, tested with the mutex held
TestPred(t) ==
    /\ t \in {"E", "V"}
    /\ tpc[t] = "pred"
    /\ tpc' = [tpc EXCEPT ![t] = IF WaitPred(t) THEN "break" ELSE "block"]
    /\ UNCHANGED mtx
    /\ WaitFrame

\* lines 257, 282: wait(lock) releases the mutex and blocks
Block(t) ==
    /\ t \in {"E", "V"}
    /\ tpc[t] = "block"
    /\ mtx' = "free"
    /\ tpc' = [tpc EXCEPT ![t] = "waiting"]
    /\ WaitFrame

\* a wake-up without a notify, which condition_variable::wait permits
SpuriousWake(t) ==
    /\ t \in {"E", "V"}
    /\ tpc[t] = "waiting"
    /\ tpc' = [tpc EXCEPT ![t] = "wake"]
    /\ UNCHANGED mtx
    /\ WaitFrame

\* lines 259-260 with the newest key taken instead of the oldest
EncPopBack ==
    /\ tpc["E"] = "break"
    /\ mtx' = "free"
    /\ IF pKeyFound
         THEN /\ tpc' = [tpc EXCEPT !["E"] = "done"]
              /\ UNCHANGED <<generatedKeys, eKey>>
         ELSE /\ eKey' = generatedKeys[Len(generatedKeys)]
              /\ generatedKeys' = SubSeq(generatedKeys, 1,
                                         Len(generatedKeys) - 1)
              /\ tpc' = [tpc EXCEPT !["E"] = "decrypt"]
    /\ UNCHANGED <<pSpace, pMatch, encryptedData, pKeyFound, pFoundKey, gKey,
                   vItem, pcS, pResult, pushedAfter, decryptsAfter, evalsAfter>>
    /\ UNCHANGED <<genHist, cmpHist>>
    /\ UNCHANGED notPipe

\* pipelineEncrypt, lines 258-261: if (data.keyFound) break; else pop
EncPop ==
    /\ tpc["E"] = "break"
    /\ mtx' = "free"
    /\ IF pKeyFound
         THEN /\ tpc' = [tpc EXCEPT !["E"] = "done"]
              /\ UNCHANGED <<generatedKeys, eKey>>
         ELSE /\ eKey' = Head(generatedKeys)
              /\ generatedKeys' = Tail(generatedKeys)
              /\ tpc' = [tpc EXCEPT !["E"] = "decrypt"]
    /\ UNCHANGED <<pSpace, pMatch, encryptedData, pKeyFound, pFoundKey, gKey,
                   vItem, pcS, pResult, pushedAfter, decryptsAfter, evalsAfter>>
    /\ UNCHANGED <<genHist, cmpHist>>
    /\ UNCHANGED notPipe

\* lines 263-267: longToKey and decrypt, outside the mutex
EncDecrypt ==
    /\ tpc["E"] = "decrypt"
    /\ decryptsAfter' = IF pKeyFound THEN decryptsAfter + 1 ELSE decryptsAfter
    /\ tpc' = [tpc EXCEPT !["E"] = "push"]
    /\ UNCHANGED <<pSpace, pMatch, generatedKeys, encryptedData, pKeyFound,
                   pFoundKey, mtx, gKey, eKey, vItem, pcS, pResult,
                   pushedAfter, evalsAfter>>
    /\ UNCHANGED <<genHist, cmpHist>>
    /\ UNCHANGED notPipe

\* lines 269-272: the locked push
EncPush ==
    /\ tpc["E"] = "push"
    /\ mtx = "free"
    /\ encryptedData' = Append(encryptedData, eKey)
    /\ tpc' = [tpc EXCEPT !["E"] = "notify"]
    /\ UNCHANGED <<pSpace, pMatch, generatedKeys, pKeyFound, pFoundKey, mtx,
                   gKey, eKey, vItem, pcS, pResult,
                   pushedAfter, decryptsAfter, evalsAfter>>
    /\ UNCHANGED <<genHist, cmpHist>>
    /\ UNCHANGED notPipe

\* line 273
EncNotify ==
    /\ tpc["E"] = "notify"
    /\ NotifyOne("E", "while")
    /\ UNCHANGED <<pSpace, pMatch, generatedKeys, encryptedData, pKeyFound,
                   pFoundKey, mtx, gKey, eKey, vItem, pcS, pResult,
                   pushedAfter, decryptsAfter, evalsAfter>>
    /\ UNCHANGED <<genHist, cmpHist>>
    /\ UNCHANGED notPipe

\* pipelineCompare, lines 283-286: if (data.keyFound) break; else pop
CmpPop ==
    /\ tpc["V"] = "break"
    /\ mtx' = "free"
    /\ IF pKeyFound
         THEN /\ tpc' = [tpc EXCEPT !["V"] = "done"]
              /\ UNCHANGED <<encryptedData, vItem>>
         ELSE /\ vItem' = Head(encryptedData)
              /\ encryptedData' = Tail(encryptedData)
              /\ tpc' = [tpc EXCEPT !["V"] = "strstr"]
    /\ UNCHANGED <<pSpace, pMatch, generatedKeys, pKeyFound, pFoundKey, gKey,
                   eKey, pcS, pResult, pushedAfter, decryptsAfter, evalsAfter>>
    /\ UNCHANGED <<genHist, cmpHist>>
    /\ UNCHANGED notPipe

\* lines 288-290: the comparison; on a match keyFound and foundKey are
\* stored, without the mutex
CmpStrstr ==
    /\ tpc["V"] = "strstr"
    /\ evalsAfter' = IF pKeyFound THEN evalsAfter + 1 ELSE evalsAfter
    /\ cmpHist' = Append(cmpHist, vItem)
    /\ IF vItem \in pMatch
         THEN /\ pKeyFound' = TRUE
              /\ pFoundKey' = vItem
              /\ tpc' = [tpc EXCEPT !["V"] = "notifyAll"]
         ELSE /\ tpc' = [tpc EXCEPT !["V"] = "while"]
              /\ UNCHANGED <<pKeyFound, pFoundKey>>
    /\ UNCHANGED <<pSpace, pMatch, generatedKeys, encryptedData, mtx, gKey,
                   eKey, vItem, pcS, pResult, pushedAfter, decryptsAfter>>
    /\ UNCHANGED genHist
    /\ UNCHANGED notPipe

\* lines 291-292: cv.notify_all(); break
CmpNotifyAll ==
    /\ tpc["V"] = "notifyAll"
    /\ tpc' = [t \in Threads |->
                  IF t = "V" THEN "done"
                  ELSE IF tpc[t] = "waiting" THEN "wake" ELSE tpc[t]]
    /\ UNCHANGED <<pSpace, pMatch, generatedKeys, encryptedData, pKeyFound,
                   pFoundKey, mtx, gKey, eKey, vItem, pcS, pResult,
                   pushedAfter, decryptsAfter, evalsAfter>>
    /\ UNCHANGED <<genHist, cmpHist>>
    /\ UNCHANGED notPipe

\* searchRange, lines 304-308: the three joins and the return
Join ==
    /\ pcS = "joining"
    /\ \A t \in Threads : tpc[t] = "done"
    /\ pcS' = "returned"
    /\ pResult' = pFoundKey
    /\ UNCHANGED <<pSpace, pMatch, generatedKeys, encryptedData, pKeyFound,
                   pFoundKey, mtx, tpc, gKey, eKey, vItem,
                   pushedAfter, decryptsAfter, evalsAfter>>
    /\ UNCHANGED <<genHist, cmpHist>>
    /\ UNCHANGED notPipe

PipeInit == InitPipe /\ V3Idle /\ PartIdle /\ V2Idle /\ CodecIdle /\ V1Idle /\ OmpIdle /\ TryIdle /\ DeliverIdle
PipeNext ==
    \/ GenPush
    \/ GenNotify
    \/ GenCheck
    \/ \E t \in {"E", "V"} : WhileTest(t)
    \/ \E t \in {"E", "V"} : Lock(t)
    \/ \E t \in {"E", "V"} : TestPred(t)
    \/ \E t \in {"E", "V"} : Block(t)
    \/ \E t \in {"E", "V"} : SpuriousWake(t)
    \/ EncPop
    \/ EncDecrypt
    \/ EncPush
    \/ EncNotify
    \/ CmpPop
    \/ CmpStrstr
    \/ CmpNotifyAll
    \/ Join
SpecPipe == PipeInit /\ [][PipeNext]_vars

(***************************************************************************)
(* Properties of the pipeline (specification SpecPipe).                    *)
(***************************************************************************)
\* the matching keys of the range
MatchesInRange == pMatch \cap KeysOf(pSpace)

\* every stage thread has finished or is blocked in cv.wait, and one is
\* blocked: no thread is left that could call notify
Stranded ==
    /\ Waiting # {}
    /\ \A t \in Threads : tpc[t] \in {"done", "waiting"}

\* C15: within one searchRange run, while keyFound is true the Generate
\* stage pushes at most one key, the Transform stage starts at most one
\* decrypt and the Verify stage compares no item.
C15_BoundedStopLatency ==
    /\ pushedAfter <= 1
    /\ decryptsAfter <= 1
    /\ evalsAfter = 0

\* C15's case: keyFound was set while the generator and the transform stage
\* were both in the middle of an iteration; each has done its one further
\* step, and every thread has stopped
C15_Witness ==
    /\ pKeyFound
    /\ pushedAfter = 1
    /\ decryptsAfter = 1
    /\ \A t \in Threads : tpc[t] = "done"

\* C17: for a range without a matching key, the empty range included, the
\* stage threads never end up blocked for good (each of them finished or in
\* cv.wait with a false predicate, so that not even a wake-up without
\* notify lets one go on), and a return gives the not-found result 0.
C17_ExhaustionTerminates ==
    MatchesInRange = {} =>
        /\ ~(Stranded /\ \A t \in Waiting : ~WaitPred(t))
        /\ pcS = "returned" => pResult = 0

\* C18: for a range with a matching key, no stage thread is left blocked in
\* cv.wait when no thread remains that could notify it, and a return gives
\* a matching key of the range.
C18_MatchDelivered ==
    MatchesInRange # {} =>
        /\ ~Stranded
        /\ pcS = "returned" => pResult \in MatchesInRange

(***************************************************************************)
(* main() of v1, mpi_bruteforce.cpp (specification SpecV1).                *)
(* foundKey is the result variable of the search and at the same time the  *)
(* buffer of the one MPI_Irecv posted in line 294, which matches the first *)
(* message of any source.  The receive completes (the key is stored in     *)
(* foundKey) at a time the MPI library chooses; MPI_Test reports whether   *)
(* it has.                                                                 *)
(***************************************************************************)
Procs1 == 0 .. (numProcesses1 - 1)

\* lines 287-290
upperBound1 == Pow2(KeyBits)

keysPerProcess1 == upperBound1 \div numProcesses1

lowerBound1(p) == keysPerProcess1 * p

\* line 290 without the case of the last rank
upperBoundLocal1NoRemainder(p) == keysPerProcess1 * (p + 1)

upperBoundLocal1(p) ==
    IF p = numProcesses1 - 1 THEN upperBound1
    ELSE keysPerProcess1 * (p + 1)

\* lines 292-297: the state after MPI_Irecv and the first barrier
InitV1 ==
    /\ numProcesses1 \in 1..MaxProcs
    /\ Match1 \in {M \in SUBSET KeyIds : Cardinality(M) <= MaxMatchesV1}
    /\ key1 = [p \in Procs1 |-> lowerBound1(p)]
    /\ foundKey1 = [p \in Procs1 |-> 0]
    /\ request1 = [p \in Procs1 |-> "pending"]
    /\ pc1 = [p \in Procs1 |-> "test"]
    /\ mailbox1 = [p \in Procs1 |-> {}]
    /\ output1 = [p \in Procs1 |-> <<>>]
    /\ found1 = {}

\* MPI_Test, lines 304 and 329: the flag it returns
TestFlag(p) == request1[p] # "pending"

\* MPI_Test, lines 304 and 329: a completed request is set to
\* MPI_REQUEST_NULL, for which every later MPI_Test returns flag = true
AfterTest(p) ==
    [request1 EXCEPT ![p] = IF @ = "pending" THEN "pending" ELSE "null"]

\* line 294: the posted receive completes with a message that was sent to
\* p; the key is stored in foundKey
CompleteIrecv(p) ==
    /\ pc1[p] # "done"
    /\ request1[p] = "pending"
    /\ \E m \in mailbox1[p] :
        /\ foundKey1' = [foundKey1 EXCEPT ![p] = m[2]]
        /\ mailbox1' = [mailbox1 EXCEPT ![p] = @ \ {m}]
    /\ request1' = [request1 EXCEPT ![p] = "complete"]
    /\ UNCHANGED <<numProcesses1, Match1, key1, pc1, output1, found1>>
    /\ UNCHANGED notV1

\* lines 301-307: the loop test, MPI_Test and the break on a received key
LoopTest(p) ==
    /\ pc1[p] = "test"
    /\ IF key1[p] < upperBoundLocal1(p)
         THEN /\ request1' = AfterTest(p)
              /\ pc1' = [pc1 EXCEPT ![p] =
                            IF TestFlag(p) /\ foundKey1[p] # 0
                            THEN "barrier" ELSE "try"]
         ELSE /\ pc1' = [pc1 EXCEPT ![p] = "barrier"]
              /\ UNCHANGED request1
    /\ UNCHANGED <<numProcesses1, Match1, key1, foundKey1, mailbox1, output1,
                   found1>>
    /\ UNCHANGED notV1

\* lines 309-310 and the ++key of line 301
TryKey(p) ==
    /\ pc1[p] = "try"
    /\ IF key1[p] \in Match1
         THEN /\ foundKey1' = [foundKey1 EXCEPT ![p] = key1[p]]
              /\ pc1' = [pc1 EXCEPT ![p] = "send"]
              /\ UNCHANGED key1
         ELSE /\ key1' = [key1 EXCEPT ![p] = @ + 1]
              /\ pc1' = [pc1 EXCEPT ![p] = "test"]
              /\ UNCHANGED foundKey1
    /\ UNCHANGED <<numProcesses1, Match1, request1, mailbox1, output1, found1>>
    /\ UNCHANGED notV1

\* lines 312-317: MPI_Send(&foundKey) to every other rank, and the break
Announce(p) ==
    /\ pc1[p] = "send"
    /\ mailbox1' = [d \in Procs1 |->
                       IF d = p THEN mailbox1[d]
                       ELSE mailbox1[d] \cup {<<p, foundKey1[p]>>}]
    /\ found1' = found1 \cup {<<p, key1[p]>>}
    /\ pc1' = [pc1 EXCEPT ![p] = "barrier"]
    /\ UNCHANGED <<numProcesses1, Match1, key1, foundKey1, request1, output1>>
    /\ UNCHANGED notV1

\* line 322: MPI_Barrier; afterwards only rank 0 has anything left to do
Barrier1 ==
    /\ \A p \in Procs1 : pc1[p] = "barrier"
    /\ pc1' = [p \in Procs1 |-> IF p = 0 THEN "postTest" ELSE "done"]
    /\ UNCHANGED <<numProcesses1, Match1, key1, foundKey1, request1, mailbox1,
                   output1, found1>>
    /\ UNCHANGED notV1

\* lines 328-333: rank 0 tests the request once more
PostTest ==
    /\ pc1[0] = "postTest"
    /\ request1' = AfterTest(0)
    /\ IF TestFlag(0) /\ foundKey1[0] = 0
         THEN pc1' = [pc1 EXCEPT ![0] = "recv"]
         ELSE pc1' = [pc1 EXCEPT ![0] = "print"]
    /\ UNCHANGED <<numProcesses1, Match1, key1, foundKey1, mailbox1, output1,
                   found1>>
    /\ UNCHANGED notV1

\* line 332: the blocking MPI_Recv of any message
PostRecv ==
    /\ pc1[0] = "recv"
    /\ \E m \in mailbox1[0] :
        /\ foundKey1' = [foundKey1 EXCEPT ![0] = m[2]]
        /\ mailbox1' = [mailbox1 EXCEPT ![0] = @ \ {m}]
    /\ pc1' = [pc1 EXCEPT ![0] = "print"]
    /\ UNCHANGED <<numProcesses1, Match1, key1, request1, output1, found1>>
    /\ UNCHANGED notV1

\* lines 335-343: rank 0 prints its result
Report1 ==
    /\ pc1[0] = "print"
    /\ output1' = [output1 EXCEPT ![0] =
                      IF foundKey1[0] # 0
                      THEN Append(@, <<"Key found", foundKey1[0]>>)
                      ELSE Append(@, <<"Key not found">>)]
    /\ pc1' = [pc1 EXCEPT ![0] = "done"]
    /\ UNCHANGED <<numProcesses1, Match1, key1, foundKey1, request1, mailbox1,
                   found1>>
    /\ UNCHANGED notV1

NextV1 ==
    \/ \E p \in Procs1 : CompleteIrecv(p)
    \/ \E p \in Procs1 : LoopTest(p)
    \/ \E p \in Procs1 : TryKey(p)
    \/ \E p \in Procs1 : Announce(p)
    \/ Barrier1
    \/ PostTest
    \/ PostRecv
    \/ Report1

V1Init == InitV1 /\ V3Idle /\ PartIdle /\ V2Idle /\ CodecIdle /\ PipeIdle /\ OmpIdle /\ TryIdle /\ DeliverIdle
SpecV1 == V1Init /\ [][NextV1]_vars

(***************************************************************************)
(* Properties of v1 (specification SpecV1).                                *)
(***************************************************************************)
\* C11: when rank 0 of v1 has printed and some rank found a matching key
\* and sent it, rank 0's output is exactly 'Key found' with a key that was
\* found.  Stated for the runs in which KeyId 0 is not a match, so that the
\* reading of foundKey 0 as 'not found' plays no part.
C11_ReportAgreesV1 ==
    (pc1[0] = "done" /\ found1 # {} /\ 0 \notin Match1) =>
        \E f \in found1 : output1[0] = << <<"Key found", f[2]>> >>

(***************************************************************************)
(* Properties of the search loop of v3 (specifications Spec and SpecMain). *)
(***************************************************************************)
\* the found-key announcements of other ranks that have been sent to p and
\* that p has not received
PendingFound(p) ==
    {mailbox[p][s][FirstWithTag(p, s, TagFound)].key :
        s \in Sources(p, TagFound) \ {p}}

\* C21: a rank observes a key announced by another rank before its scan of
\* the current range completes: whenever a call of searchRange returns
\* while such an announcement is waiting, the rank holds an announced key.
C21_PollingDuringScan ==
    [][\A p \in Procs :
          (/\ pc[p] = "searchRange"
           /\ pc'[p] \notin {"searchRange", "hung"}
           /\ PendingFound(p) # {})
          => (keyFound'[p] /\ foundKey'[p] \in PendingFound(p))]_vars

\* the work-requests of rank p that rank 0 has not received
Requests(mb, p) == SelectSeq(mb[0][p], LAMBDA m : m.tag = TagRequest)

\* the work-replies to rank p that p has not received
Replies(mb, p) == SelectSeq(mb[p][0], LAMBDA m : m.tag = TagReply)

\* the work-replies with a non-empty range that rank 0 has sent to rank d
\* and d has not received
RangeReplies(mb, d) ==
    SelectSeq(mb[d][0],
              LAMBDA m : m.tag = TagReply /\ m.space.start # m.space.end)

\* C27: once rank 0 has found a key or has received an announcement
\* (keyFound is set), no step sends a work-reply with a non-empty range.
C27_NoDispatchAfterFound ==
    [][keyFound[0] =>
          \A d \in Procs :
              Len(RangeReplies(mailbox', d)) <= Len(RangeReplies(mailbox, d))]_vars

\* C27's case: rank 0 holds a key and has finished while ranges are left in
\* its backlog and a worker's request is waiting for an answer
C27_Witness ==
    /\ keyFound[0]
    /\ pc[0] = "done"
    /\ keySpaces # <<>>
    /\ \E p \in Procs \ {0} : Requests(mailbox, p) # <<>>

\* C29: a worker sends a work-request only with an empty local vector and
\* without a found key; a request or its reply is outstanding only while
\* the worker waits for the reply, and then there is exactly one of them.
C29_RequestDiscipline ==
    \A p \in Procs \ {0} :
        /\ Len(Requests(mailbox, p)) + Len(Replies(mailbox, p))
              = IF pc[p] = "waitReply" THEN 1 ELSE 0
        /\ pc[p] = "waitReply" => (localKeySpaces[p] = <<>> /\ ~keyFound[p])

\* C29's case: a worker has used up its ranges and waits for the reply to
\* its one request, which rank 0 has not received yet
C29_Witness ==
    \E p \in Procs \ {0} :
        /\ pc[p] = "waitReply"
        /\ Len(Requests(mailbox, p)) = 1
        /\ scanned # {}

\* the keys of the range in ascending order: start, start+1, ..., end-1
RangeSeq ==
    [i \in 1..Cardinality(KeysOf(pSpace)) |-> pSpace.start + i - 1]

IsPrefix(a, b) == Len(a) <= Len(b) /\ a = SubSeq(b, 1, Len(a))

\* every stage thread has finished or is blocked for good
PipeAtRest ==
    \A t \in Threads : \/ tpc[t] = "done"
                       \/ tpc[t] = "waiting" /\ ~WaitPred(t)

C23_BoundedQueues ==
    /\ Len(generatedKeys) <= QueueCapacity
    /\ Len(encryptedData) <= QueueCapacity

(***************************************************************************)
(* One OpenMP parallel region of v2, lines 268-301, thread by thread.      *)
(* The dynamic schedule hands the iterations out in blocks (of 1024 in the *)
(* source, of one iteration here) to whichever thread asks next.           *)
(***************************************************************************)
OmpThreads == 1..NumThreads

\* lines 248, 264-265: a region starts with keyFound false, since the loop
\* of line 264 ends once a key is found or received
InitOmp ==
    /\ oStart \in KeyIds
    /\ oEnd = Min({oStart + ChunkSize, Pow2(KeyBits)})
    /\ oMatch \in MatchSets
    /\ oNext = oStart
    /\ oKey = [t \in OmpThreads |-> 0]
    /\ opc = [t \in OmpThreads |-> "for"]
    /\ oKeyFound = FALSE
    /\ oFoundKey = 0
    /\ oLate = 0

\* lines 275-276: the thread takes the next iteration, or finds none left and
\* waits at the end of the region
OmpFor(t) ==
    /\ opc[t] = "for"
    /\ IF oNext < oEnd
         THEN /\ oKey' = [oKey EXCEPT ![t] = oNext]
              /\ oNext' = oNext + 1
              /\ opc' = [opc EXCEPT ![t] = "test"]
         ELSE /\ opc' = [opc EXCEPT ![t] = "end"]
              /\ UNCHANGED <<oKey, oNext>>
    /\ UNCHANGED <<oStart, oEnd, oMatch, oKeyFound, oFoundKey, oLate>>
    /\ UNCHANGED notOmp

\* lines 278-280: if (keyFound) continue.  keyFound is a plain bool that
\* another thread may be writing in the critical section: the read races
\* with that write, and a thread can still see false after it was set
OmpTest(t) ==
    /\ opc[t] = "test"
    /\ \E seen \in (IF oKeyFound THEN {TRUE, FALSE} ELSE {FALSE}) :
          opc' = [opc EXCEPT ![t] = IF seen THEN "for" ELSE "strstr"]
    /\ UNCHANGED <<oStart, oEnd, oMatch, oNext, oKey, oKeyFound, oFoundKey,
                   oLate>>
    /\ UNCHANGED notOmp

\* lines 283-290: longToKey, decrypt, strstr
OmpStrstr(t) ==
    /\ opc[t] = "strstr"
    /\ opc' = [opc EXCEPT ![t] = IF oKey[t] \in oMatch THEN "critical" ELSE "for"]
    /\ UNCHANGED <<oStart, oEnd, oMatch, oNext, oKey, oKeyFound, oFoundKey,
                   oLate>>
    /\ UNCHANGED notOmp

\* lines 292-298 without the test of line 294: every match is stored
OmpCriticalNoTest(t) ==
    /\ opc[t] = "critical"
    /\ oFoundKey' = oKey[t]
    /\ oKeyFound' = TRUE
    /\ oLate' = IF oKeyFound THEN oLate + 1 ELSE oLate
    /\ opc' = [opc EXCEPT ![t] = "for"]
    /\ UNCHANGED <<oStart, oEnd, oMatch, oNext, oKey>>
    /\ UNCHANGED notOmp

\* lines 292-298: the critical section, one thread at a time
OmpCritical(t) ==
    /\ opc[t] = "critical"
    /\ IF ~oKeyFound
         THEN /\ oFoundKey' = oKey[t]
              /\ oKeyFound' = TRUE
              /\ oLate' = oLate
         ELSE /\ oLate' = oLate + 1
              /\ UNCHANGED <<oFoundKey, oKeyFound>>
    /\ opc' = [opc EXCEPT ![t] = "for"]
    /\ UNCHANGED <<oStart, oEnd, oMatch, oNext, oKey>>
    /\ UNCHANGED notOmp

\* line 301: the end of the parallel region, reached by all threads
OmpEnd ==
    /\ \A t \in OmpThreads : opc[t] = "end"
    /\ opc' = [t \in OmpThreads |-> "joined"]
    /\ UNCHANGED <<oStart, oEnd, oMatch, oNext, oKey, oKeyFound, oFoundKey,
                   oLate>>
    /\ UNCHANGED notOmp

OmpInit ==
    /\ InitOmp /\ V3Idle /\ PartIdle /\ V2Idle /\ CodecIdle /\ PipeIdle
    /\ V1Idle /\ TryIdle /\ DeliverIdle
OmpNext ==
    \/ \E t \in OmpThreads : OmpFor(t)
    \/ \E t \in OmpThreads : OmpTest(t)
    \/ \E t \in OmpThreads : OmpStrstr(t)
    \/ \E t \in OmpThreads : OmpCritical(t)
    \/ OmpEnd

\* the search inside one process: a parallel region of v2 or a call of
\* searchRange of v3
LocalInit == OmpInit \/ PipeInit
LocalNext == OmpNext \/ PipeNext
SpecLocal == LocalInit /\ [][LocalNext]_vars

(***************************************************************************)
(* Properties of the local search (specification SpecLocal).               *)
(***************************************************************************)
\* C24: within one process the found-state is written by the first matching
\* evaluation only: once keyFound is set, no step changes foundKey or
\* clears keyFound, in the OpenMP region of v2 and in the pipeline of v3.
C24_FirstWriterWins ==
    [][/\ oKeyFound => (oKeyFound' /\ oFoundKey' = oFoundKey)
       /\ pKeyFound => (pKeyFound' /\ pFoundKey' = pFoundKey)]_vars

\* C24's case: a second thread has found a matching key and has gone
\* through the critical section after the first writer; the region has
\* ended with the first writer's key
C24_Witness ==
    /\ oLate >= 1
    /\ oKeyFound
    /\ \A t \in OmpThreads : opc[t] = "joined"

(***************************************************************************)
(* The evaluation of one key after the other: decrypt and the phrase       *)
(* check.  decrypt sets the parity bits of the key and hands it to         *)
(* DES_set_key_checked, which refuses the weak and semi-weak keys; decrypt *)
(* then returns without writing a single byte of its output buffer.        *)
(* KeyId 0 is such a key: its bytes are all 0x00, 0x01 after the parity    *)
(* bits are set, the weak key 0101010101010101.                            *)
(* A buffer is "zero" (its first byte is 0), "phrase" (it holds the search *)
(* phrase) or "other".                                                     *)
(***************************************************************************)
\* v1 and v3 call DES_set_key_checked; v2 calls DES_set_key_unchecked (line
\* 99), which refuses no key
Versions == {"v1", "v3"}
Contents == {"zero", "phrase", "other"}

\* the sets of KeyIds that DES_set_key_checked refuses
RejectedSets ==
    {W \in SUBSET KeyIds : 0 \in W /\ Cardinality(W) <= MaxRejected}

\* what decrypt writes for a key DES accepts
Plaintext(key, match) == IF key \in match THEN "phrase" ELSE "other"

\* strstr(buffer, searchPhrase) != nullptr, for a search phrase that is
\* not empty
Strstr(temp) == temp = "phrase"

\* the ciphertext was made with a key that encrypt accepted (v1 lines
\* 89-92), and a refused key decrypts nothing: no refused key is a match
InitTry ==
    /\ tVer \in Versions
    /\ tLow \in KeyIds
    /\ tHigh = Min({tLow + ChunkSize, Pow2(KeyBits)})
    /\ tRejected \in RejectedSets
    /\ tMatch \in {m \in MatchSets : m \cap tRejected = {}}
    /\ tKey = tLow
    /\ tTemp = "zero"
    /\ tStep = "for"
    /\ tAccepted = {}
    /\ tSkipped = {}

\* the loop head (v1 line 301, v3 line 242) and the buffer of this
\* evaluation:
\*   v1 line 160  unsigned char temp[len + 1], a fresh array whose bytes
\*                are indeterminate;
\*   v3 line 266  std::vector<unsigned char> decrypted(len), all zero.
TryFor ==
    /\ tStep = "for"
    /\ IF tKey < tHigh
         THEN /\ tStep' = "decrypt"
              /\ IF tVer = "v1" THEN tTemp' \in Contents
                                 ELSE tTemp' = "zero"
         ELSE /\ tStep' = "done"
              /\ tTemp' = tTemp
    /\ UNCHANGED <<tVer, tLow, tHigh, tMatch, tRejected, tKey, tAccepted,
                   tSkipped>>
    /\ UNCHANGED notTry

\* decrypt (v1 lines 108-135, v3 lines 102-128): a refused key returns at
\* once and leaves the buffer as it was
TryDecrypt ==
    /\ tStep = "decrypt"
    /\ tTemp' = IF tKey \in tRejected THEN tTemp
                ELSE Plaintext(tKey, tMatch)
    /\ tStep' = "check"
    /\ UNCHANGED <<tVer, tLow, tHigh, tMatch, tRejected, tKey, tAccepted,
                   tSkipped>>
    /\ UNCHANGED notTry

\* the phrase check: v1 lines 167-172 (strlen, then strstr), v3 line 288.  A match ends the loop; otherwise the next key follows.
TryCheck ==
    /\ tStep = "check"
    /\ LET hit == IF tVer = "v1" /\ tTemp = "zero" THEN FALSE
                  ELSE Strstr(tTemp)
       IN IF hit
            THEN /\ tAccepted' = tAccepted \cup {tKey}
                 /\ tStep' = "found"
                 /\ UNCHANGED <<tKey, tSkipped>>
            ELSE /\ tKey' = tKey + 1
                 /\ tStep' = "for"
                 /\ tSkipped' = IF tKey \in tRejected
                                  THEN tSkipped \cup {tKey} ELSE tSkipped
                 /\ UNCHANGED tAccepted
    /\ UNCHANGED <<tVer, tLow, tHigh, tMatch, tRejected, tTemp>>
    /\ UNCHANGED notTry

TryInit ==
    /\ InitTry /\ V3Idle /\ PartIdle /\ V2Idle /\ CodecIdle /\ PipeIdle
    /\ V1Idle /\ OmpIdle /\ DeliverIdle
TryNext == TryFor \/ TryDecrypt \/ TryCheck
SpecTry == TryInit /\ [][TryNext]_vars

(***************************************************************************)
(* Properties of the evaluation of the keys (specification SpecTry).       *)
(***************************************************************************)
\* C28: a KeyId the cipher rejects is treated as no match: the phrase
\* check never accepts the buffer handed to it for a rejected key.
C28_RejectedNoMatch == tAccepted \cap tRejected = {}

(***************************************************************************)
(* One process and the found-key announcements delivered to it.            *)
(*   v2 lines 313-329: the process drains every pending announcement with  *)
(*   MPI_Iprobe and MPI_Recv, and stores each one.                         *)
(*   v3 lines 470-477: the process receives one announcement and leaves    *)
(*   its loop; it has no receive for tag 2 after the loop, where a further *)
(*   copy is not looked at.                                                *)
(***************************************************************************)
ProcState(fk, kf, gfk, gkf, at) ==
    [foundKey |-> fk, keyFound |-> kf, globalFoundKey |-> gfk,
     globalKeyFound |-> gkf, pc |-> at]

\* v2 lines 320-325 with the keys added up instead of stored
ReceiveFoundAdd(ver, s, key) ==
    IF s.pc # "probe" THEN s
    ELSE ProcState((s.foundKey + key) % Pow2(KeyBits), TRUE,
                   (s.globalFoundKey + key) % Pow2(KeyBits), TRUE,
                   IF ver = "v2" THEN "probe" ELSE "afterLoop")

\* the process in state s is handed an announcement of key:
\*   v2 lines 320-325  MPI_Recv(&receivedKey); globalFoundKey = receivedKey;
\*                     globalKeyFound = true; keyFound = true;
\*                     foundKey = receivedKey; and the drain loop goes on
\*   v3 lines 473-476  MPI_Recv(&foundKey); keyFound = true; break;
\*                     v3 has no globalFoundKey or globalKeyFound
ReceiveFound(ver, s, key) ==
    IF s.pc # "probe" THEN s
    ELSE IF ver = "v2"
           THEN ProcState(key, TRUE, key, TRUE, "probe")
           ELSE ProcState(key, TRUE, s.globalFoundKey, s.globalKeyFound,
                          "afterLoop")

\* the states a process can be in when an announcement reaches it:
\*   v2  in the drain loop, having found nothing itself (line 313), with
\*       nothing received yet (lines 247-250) or with another process's
\*       key received just before;
\*   v3  at the probe of line 471 after a scan that returned 0, or past
\*       the loop with a key of its own or of another process.
InitDeliver ==
    /\ dVer \in {"v2", "v3"}
    /\ dKey \in (IF dVer = "v2" THEN KeyIds ELSE KeyIds \ {0})
    /\ dProc \in
         IF dVer = "v2"
           THEN {ProcState(0, FALSE, 0, FALSE, "probe")}
                \cup {ProcState(k, TRUE, k, TRUE, "probe") : k \in KeyIds}
           ELSE {ProcState(0, FALSE, 0, FALSE, "probe")}
                \cup {ProcState(k, TRUE, 0, FALSE, "afterLoop") :
                        k \in KeyIds \ {0}}
    /\ dBefore = dProc
    /\ dOnce = dProc
    /\ dCount = 0

\* one more copy of the announcement is delivered
DeliverFound ==
    /\ dCount < MaxDeliveries
    /\ dProc' = ReceiveFound(dVer, dProc, dKey)
    /\ dOnce' = IF dCount = 0 THEN dProc' ELSE dOnce
    /\ dCount' = dCount + 1
    /\ UNCHANGED <<dVer, dKey, dBefore>>
    /\ UNCHANGED notDeliver

\* v2 lines 326-328: MPI_Iprobe finds nothing more and the drain loop ends;
\* line 264 then ends the search when a key was received, and starts the
\* next chunk otherwise, after which the process probes again
LeaveDrain(s) ==
    [s EXCEPT !.pc = IF s.globalKeyFound THEN "afterLoop" ELSE "probe"]

\* the process goes on after the last copy, and so does the process that
\* was handed one copy only
ProbeEmpty ==
    /\ dVer = "v2"
    /\ dProc.pc = "probe"
    /\ dCount = MaxDeliveries
    /\ dProc' = LeaveDrain(dProc)
    /\ dOnce' = LeaveDrain(dOnce)
    /\ UNCHANGED <<dVer, dKey, dBefore, dCount>>
    /\ UNCHANGED notDeliver

DeliverInit ==
    /\ InitDeliver /\ V3Idle /\ PartIdle /\ V2Idle /\ CodecIdle /\ PipeIdle
    /\ V1Idle /\ OmpIdle /\ TryIdle
DeliverNext == DeliverFound \/ ProbeEmpty
SpecDeliver == DeliverInit /\ [][DeliverNext]_vars

(***************************************************************************)
(* Properties of the delivery (specification SpecDeliver).                 *)
(***************************************************************************)
\* C30: delivering the same found-key announcement to a process more than
\* once leaves its adopted key and its control state as one delivery left
\* them.
C30_IdempotentDelivery ==
    dCount >= 1 => dProc = dOnce

\* C30's case: a process that had adopted nothing has been handed the
\* announcement twice, and the first delivery changed its state
C30_Witness ==
    /\ dCount >= 2
    /\ ~dBefore.keyFound
    /\ dOnce.keyFound
    /\ dOnce.foundKey = dKey

(***************************************************************************)
(* The static slices of v1 (lines 287-290) and v2 (lines 242-245), and the *)
(* two programs that search them.                                          *)
(***************************************************************************)
\* the keys of rank p: lowerBound <= key < upperBoundLocal
Slice1(p) == lowerBound1(p) .. (upperBoundLocal1(p) - 1)
Slice2(p) == lowerBound(p) .. (upperBoundLocal(p) - 1)

StaticInit == V1Init \/ V2Init
StaticNext == NextV1 \/ NextV2
SpecStatic == StaticInit /\ [][StaticNext]_vars

\* C33: for every number of processes the slices [lowerBound,
\* upperBoundLocal) of the ranks are pairwise disjoint and their union is
\* [0, upperBound); the slice of the last rank holds the remainder of
\* upperBound / N, every other slice has the size of the quotient.
C33_StaticSlicesCover ==
    /\ \A p, q \in Procs1 : p # q => Slice1(p) \cap Slice1(q) = {}
    /\ UNION {Slice1(p) : p \in Procs1} = 0 .. (upperBound1 - 1)
    /\ \A p \in Procs1 :
          Cardinality(Slice1(p)) =
              IF p = numProcesses1 - 1
                THEN keysPerProcess1 + (upperBound1 % numProcesses1)
                ELSE keysPerProcess1
    /\ \A p, q \in Procs2 : p # q => Slice2(p) \cap Slice2(q) = {}
    /\ UNION {Slice2(p) : p \in Procs2} = 0 .. (upperBound - 1)
    /\ \A p \in Procs2 :
          Cardinality(Slice2(p)) =
              IF p = numProcesses2 - 1
                THEN keysPerProcess + (upperBound % numProcesses2)
                ELSE keysPerProcess

\* C33's case: a division that leaves a remainder, and the last rank of v1
\* has searched its slice to the end of the key space
C33_Witness ==
    /\ numProcesses1 >= 2
    /\ upperBound1 % numProcesses1 # 0
    /\ key1[numProcesses1 - 1] = upperBound1

(***************************************************************************)
(* naive_sequential.cpp, lines 248-258: one ascending scan of the whole    *)
(* key space, which stops at the first key that tryKey accepts.            *)
(***************************************************************************)
\* for (long key = 0; key < upperBound; ++key) if (tryKey(key, ...)) break;
\* the lines the program has printed about the key once the loop has ended
RECURSIVE SequentialScan(_, _)
SequentialScan(key, match) ==
    IF key >= upperBound1 THEN <<>>
    ELSE IF key \in match THEN << <<"Key found", key>> >>
    ELSE SequentialScan(key + 1, match)

\* what rank 0 of v1 has printed about the key: the key, or nothing when
\* it printed 'Key not found'
Reported1 ==
    SelectSeq(output1[0], LAMBDA line : line[1] = "Key found")

\* C34: the key v1 reports is the key the single ascending scan of
\* naive_sequential finds, the smallest matching KeyId, and v1 reports
\* 'not found' exactly when that scan finds no key.  Stated for the runs in
\* which KeyId 0 is not a match.
C34_RefinesSequential ==
    (pc1[0] = "done" /\ 0 \notin Match1) =>
        Reported1 = SequentialScan(0, Match1)

(***************************************************************************)
(* The result of searchRange (specification SpecPipe).                     *)
(***************************************************************************)
\* C32: whenever searchRange returns a key as found, the key lies in the
\* scanned range [start, end), satisfies the predicate, and is the smallest
\* KeyId of the range that does.
C32_ResultSound ==
    (pcS = "returned" /\ pResult # 0) =>
        /\ pResult \in KeysOf(pSpace)
        /\ pResult \in pMatch
        /\ \A k \in MatchesInRange : pResult <= k

\* C32's case: searchRange has returned a key of a range that holds a
\* larger matching key as well
C32_Witness ==
    /\ pcS = "returned"
    /\ pResult # 0
    /\ \E k \in MatchesInRange : k > pResult

(***************************************************************************)
(* KeyId 0 as a found key.  v2 sets its keys with DES_set_key_unchecked    *)
(* (lines 68 and 99), so KeyId 0 decrypts like any other key and matches   *)
(* whenever the text was encrypted with a key whose bytes differ from zero *)
(* in the parity bits only (the keys 0 and 1 among them).                  *)
(***************************************************************************)
\* C31: a rank 0 that holds KeyId 0 as the found key reports key 0 as
\* found.
C31_KeyZeroOrdinary ==
    (pc2[0] = "done" /\ globalKeyFound[0] /\ globalFoundKey[0] = 0) =>
        output2[0] = << <<"Key found", 0>> >>

(***************************************************************************)
(* The channels at the end of a run of v3 (specification Spec).            *)
(***************************************************************************)
\* rank p has left the loop of lines 456-502
LeftLoop(p) == pc[p] \in {"report", "done"}

\* the messages of the search loop sent to rank d and not received by it:
\* found-key announcements, work-requests and work-replies
Unreceived(d) ==
    UNION {{mailbox[d][s][i] :
               i \in {j \in 1..Len(mailbox[d][s]) :
                        mailbox[d][s][j].tag \in
                            {TagFound, TagRequest, TagReply}}} :
           s \in Procs}

\* C35: when every rank has left its search loop, no found-key
\* announcement, work-request or work-reply is left unreceived.
C35_NoMessageLeft ==
    (\A p \in Procs : LeftLoop(p)) => \A d \in Procs : Unreceived(d) = {}

====
